---- MODULE Spec2Model ----
(***************************************************************************)
(* gerberts: Gerber tokenizer, parser, serializer and SVG render replay.   *)
(*                                                                         *)
(* Text is a sequence of one-character strings.  An optional value is the  *)
(* empty sequence (undefined / null) or a one-element sequence.            *)
(***************************************************************************)
EXTENDS Integers, Sequences, FiniteSets, TLC

\* ------------------------------------------------------------------ bounds
\* Number of catalogue pieces concatenated into one source text.
MaxPieces == 2

\* Number of nodes of a document handed to the renderer.
MaxCmds == 4

\* Number of nodes a document grows to through the append operations.
MaxDocLen == 3

\* Number of ensureEndOfFile calls in a row.
MaxEnsureCalls == 2

\* Number of characters after the dot of an attribute block.
MaxRest == 3

\* Number of nodes after the head of a document of every node kind.
MaxModalCmds == 2

\* Number of nodes left out of the document that is rendered twice.
MaxLeftOut == 2

\* ------------------------------------------------------------- characters
DigitChars == <<"0", "1", "2", "3", "4", "5", "6", "7", "8", "9">>

IsDigit(c) == \E i \in 1..Len(DigitChars) : DigitChars[i] = c

DigitVal(c) == (CHOOSE i \in 1..Len(DigitChars) : DigitChars[i] = c) - 1

UpperLetters ==
    {"A", "B", "C", "D", "E", "F", "G", "H", "I", "J", "K", "L", "M",
     "N", "O", "P", "Q", "R", "S", "T", "U", "V", "W", "X", "Y", "Z"}

LowerLetters ==
    {"a", "b", "c", "d", "e", "f", "g", "h", "i", "j", "k", "l", "m",
     "n", "o", "p", "q", "r", "s", "t", "u", "v", "w", "x", "y", "z"}

\* [A-Za-z_]
IsNameStart(c) == c \in UpperLetters \cup LowerLetters \cup {"_"}

\* [A-Za-z0-9_]
IsNameChar(c) == IsNameStart(c) \/ IsDigit(c)

\* the characters the tokenizer skips between tokens
TokenizerSpace == {" ", "\t", "\r", "\n"}

\* \s of a regular expression, and the white space parseFloat skips: the
\* space, \t, \r, \n, \f, U+000B, U+00A0, U+FEFF and U+1680.  (U+2000 to U+200A,
\* U+2028, U+2029, U+202F, U+205F and U+3000 are white space as well; a string
\* of this notation cannot hold them.)
RegexSpace ==
    {" ", "\t", "\r", "\n", "\f", "", " ", "﻿", " "}

\* ---------------------------------------------------------------- strings
Str1(c) == <<c>>

StartsWith(s, p) == Len(s) >= Len(p) /\ SubSeq(s, 1, Len(p)) = p

EndsWith(s, p) == Len(s) >= Len(p) /\ SubSeq(s, Len(s) - Len(p) + 1, Len(s)) = p

\* s.slice(n)
SliceFrom(s, n) == SubSeq(s, n + 1, Len(s))

\* s.slice(0, -1)
SliceDropLast(s) == SubSeq(s, 1, Len(s) - 1)

\* s.indexOf(c), 0-based, -1 when absent
IndexOf(s, c) ==
    IF \E i \in 1..Len(s) : s[i] = c
    THEN (CHOOSE i \in 1..Len(s) : s[i] = c /\ \A k \in 1..(i - 1) : s[k] # c) - 1
    ELSE -1

\* 1-based character test that is false outside the string
At(s, i, c) == i >= 1 /\ i <= Len(s) /\ s[i] = c

AtIn(s, i, cs) == i >= 1 /\ i <= Len(s) /\ s[i] \in cs

AtDigit(s, i) == i >= 1 /\ i <= Len(s) /\ IsDigit(s[i])

\* end (exclusive, 1-based) of the greedy run \d* starting at i
DigitRunEnd(s, i) ==
    CHOOSE j \in i..(Len(s) + 1) :
        /\ \A k \in i..(j - 1) : IsDigit(s[k])
        /\ (j = Len(s) + 1 \/ ~IsDigit(s[j]))

\* end of the greedy run \s* starting at i
SpaceRunEnd(s, i) ==
    CHOOSE j \in i..(Len(s) + 1) :
        /\ \A k \in i..(j - 1) : s[k] \in RegexSpace
        /\ (j = Len(s) + 1 \/ s[j] \notin RegexSpace)

\* [+-]?\d+ at i: its end (exclusive), or 0 when it does not match there
SignedIntEnd(s, i) ==
    LET p == IF AtIn(s, i, {"+", "-"}) THEN i + 1 ELSE i
        e == IF p <= Len(s) + 1 THEN DigitRunEnd(s, p) ELSE p
    IN  IF e > p THEN e ELSE 0

\* [+-]?\d*\.?\d+ at i: its end (exclusive), or 0 when it does not match there
SignedRealEnd(s, i) ==
    LET p == IF AtIn(s, i, {"+", "-"}) THEN i + 1 ELSE i
        a == IF p <= Len(s) + 1 THEN DigitRunEnd(s, p) ELSE p
        b == IF At(s, a, ".") THEN DigitRunEnd(s, a + 1) ELSE a
    IN  IF At(s, a, ".") /\ b > a + 1 THEN b
        ELSE IF a > p THEN a
        ELSE 0

RECURSIVE ShortRunValue(_)
\* the natural written by a run of at most 9 decimal digits (a longer run is
\* read by pieces into a large natural, BigOfDigits below)
ShortRunValue(s) ==
    IF s = <<>> THEN 0
    ELSE ShortRunValue(SliceDropLast(s)) * 10 + DigitVal(s[Len(s)])

\* ---------------------------------------------------------- large naturals
\* A natural number of any size: its digits ("limbs") in base 2^15, least
\* significant first, without a most significant zero; <<>> is 0.  They hold
\* the 53-bit significands of the numbers below and the intermediate results
\* of their arithmetic.  A long number is worked on by halves, so that the
\* depth of an operation grows with the logarithm of the size.
MaxOf(m, n) == IF m >= n THEN m ELSE n

MinOf(m, n) == IF m <= n THEN m ELSE n

\* the first n limbs of the limbs f
Limbs(f, n) == SubSeq(f, 1, n)

\* the index of the most significant limb that is not 0, or 0
BigTop(a) ==
    IF a[Len(a)] # 0 THEN Len(a)
    ELSE IF \A i \in 1..Len(a) : a[i] = 0 THEN 0
    ELSE CHOOSE i \in 1..Len(a) : a[i] # 0 /\ \A j \in (i + 1)..Len(a) : a[j] = 0

BigTrim(a) == IF a = <<>> THEN a ELSE Limbs(a, BigTop(a))

\* a natural below 2^31
BigOfNat(n) ==
    IF n < 32768 THEN (IF n = 0 THEN <<>> ELSE <<n>>)
    ELSE BigTrim(<<n % 32768, (n \div 32768) % 32768, n \div 1073741824>>)

BigLimb(a, i) == IF i <= Len(a) THEN a[i] ELSE 0

\* the carry out of limb i of a + b: when limb i passes a carry on, that of
\* the limbs below, where a limb below makes one and all between pass it on
BigCarry(a, b, i) ==
    IF i = 0 THEN 0
    ELSE IF BigLimb(a, i) + BigLimb(b, i) # 32767
    THEN (BigLimb(a, i) + BigLimb(b, i)) \div 32768
    ELSE IF \E j \in 1..(i - 1) :
                /\ BigLimb(a, j) + BigLimb(b, j) >= 32768
                /\ \A k \in (j + 1)..(i - 1) : BigLimb(a, k) + BigLimb(b, k) = 32767
    THEN 1 ELSE 0

\* a + b, one limb longer than the longer one when its last limb carries
BigAdd(a, b) ==
    IF b = <<>> THEN a
    ELSE IF a = <<>> THEN b
    ELSE Limbs([i \in 1..(MaxOf(Len(a), Len(b)) + 1) |->
                    (BigLimb(a, i) + BigLimb(b, i) + BigCarry(a, b, i - 1)) % 32768],
               MaxOf(Len(a), Len(b)) + BigCarry(a, b, MaxOf(Len(a), Len(b))))

\* the borrow out of limb i of a - b: when the limbs i are equal, that of the
\* limbs below, where a limb below borrows and all between are equal
BigBorrow(a, b, i) ==
    IF i = 0 THEN 0
    ELSE IF a[i] # BigLimb(b, i) THEN (IF a[i] < BigLimb(b, i) THEN 1 ELSE 0)
    ELSE IF \E j \in 1..(i - 1) :
                /\ a[j] < BigLimb(b, j)
                /\ \A k \in (j + 1)..(i - 1) : a[k] = BigLimb(b, k)
    THEN 1 ELSE 0

\* a - b for a >= b
BigSub(a, b) ==
    IF b = <<>> THEN a
    ELSE BigTrim(Limbs([i \in 1..Len(a) |->
                            (a[i] - BigLimb(b, i) - BigBorrow(a, b, i - 1)) % 32768],
                       Len(a)))

\* a * k for 0 <= k <= 2^15: the low parts of the products of the limbs and
\* their high parts one limb up
BigMulSmall(a, k) ==
    IF k = 1 \/ a = <<>> THEN a
    ELSE IF k = 0 THEN <<>>
    ELSE BigAdd(Limbs([i \in 1..Len(a) |-> (a[i] * k) % 32768], Len(a)),
                Limbs([i \in 1..(Len(a) + 1) |->
                            IF i = 1 THEN 0 ELSE (a[i - 1] * k) \div 32768],
                      Len(a) + (IF a[Len(a)] * k >= 32768 THEN 1 ELSE 0)))

BigCmpAt(a, b, i) == IF a[i] < b[i] THEN 0 - 1 ELSE 1

\* -1, 0 or 1 as a < b, a = b or a > b
BigCmp(a, b) ==
    IF Len(a) # Len(b) THEN (IF Len(a) < Len(b) THEN 0 - 1 ELSE 1)
    ELSE IF a = b THEN 0
    ELSE BigCmpAt(a, b, CHOOSE i \in 1..Len(a) :
                            a[i] # b[i] /\ \A j \in (i + 1)..Len(a) : a[j] = b[j])

\* a * 2^(15 * n)
BigShiftLimbs(a, n) == IF a = <<>> \/ n = 0 THEN a ELSE [i \in 1..n |-> 0] \o a

RECURSIVE BigMulRange(_, _, _, _)
\* a * (the limbs lo..hi of b)
BigMulRange(a, b, lo, hi) ==
    IF lo = hi THEN BigMulSmall(a, b[lo])
    ELSE BigAdd(BigMulRange(a, b, lo, (lo + hi) \div 2),
                BigShiftLimbs(BigMulRange(a, b, ((lo + hi) \div 2) + 1, hi),
                              ((lo + hi) \div 2) + 1 - lo))

\* a * b
BigMul(a, b) ==
    IF a = <<>> \/ b = <<>> THEN <<>>
    ELSE IF Len(b) = 1 THEN BigMulSmall(a, b[1])
    ELSE BigMulRange(a, b, 1, Len(b))

RECURSIVE BigRems(_, _, _, _, _)
RECURSIVE BigRemsLower(_, _, _, _, _)
\* for the limbs hi, hi - 1, .., lo of a in this order: the remainder by k of
\* the number written by the limbs of a from that limb up, r being the
\* remainder of the limbs above hi
BigRems(a, k, lo, hi, r) ==
    IF lo = hi THEN <<(r * 32768 + a[lo]) % k>>
    ELSE BigRemsLower(a, k, lo, (lo + hi) \div 2,
                      BigRems(a, k, ((lo + hi) \div 2) + 1, hi, r))

\* the lower half after the upper half
BigRemsLower(a, k, lo, hi, up) == up \o BigRems(a, k, lo, hi, up[Len(up)])

\* a limb of the quotient is the quotient of the remainder above it and the
\* limb of a
BigDivBy(a, k, rems) ==
    [q |-> Limbs([i \in 1..Len(a) |->
                ((IF i = Len(a) THEN 0 ELSE rems[Len(a) - i]) * 32768 + a[i]) \div k],
                 Len(a) - (IF a[Len(a)] < k THEN 1 ELSE 0)),
     r |-> rems[Len(a)]]

\* quotient q and remainder r of a by k, 1 <= k <= 2^15
BigDivSmall(a, k) ==
    IF a = <<>> THEN [q |-> <<>>, r |-> 0]
    ELSE BigDivBy(a, k, BigRems(a, k, 1, Len(a), 0))

\* a * p for p = 2^s, 0 < s < 15, and q = 2^(15-s): a limb takes the low digits
\* of its own and the high digits of the limb below
BigShlBy(a, p, q) ==
    Limbs([i \in 1..(Len(a) + 1) |->
                (BigLimb(a, i) % q) * p + (IF i = 1 THEN 0 ELSE a[i - 1] \div q)],
          Len(a) + (IF a[Len(a)] >= q THEN 1 ELSE 0))

\* a * 2^n
BigShl(a, n) ==
    IF n = 0 \/ a = <<>> THEN a
    ELSE BigShiftLimbs(IF n % 15 = 0 THEN a ELSE BigShlBy(a, 2 ^ (n % 15), 2 ^ (15 - (n % 15))),
                       n \div 15)

\* floor(a / p) for p = 2^s, 0 < s < 15, and q = 2^(15-s)
BigShrBy(a, p, q) ==
    Limbs([i \in 1..Len(a) |-> (a[i] \div p) + (BigLimb(a, i + 1) % p) * q],
          Len(a) - (IF a[Len(a)] < p THEN 1 ELSE 0))

BigShrLimbs(a, n) ==
    IF n % 15 = 0 \/ a = <<>> THEN a
    ELSE BigShrBy(a, 2 ^ (n % 15), 2 ^ (15 - (n % 15)))

\* floor(a / 2^n)
BigShr(a, n) ==
    IF n = 0 THEN a ELSE BigShrLimbs(SubSeq(a, (n \div 15) + 1, Len(a)), n)

\* the number of binary digits of v, 0 <= v < 2^15
BitLen(v) ==
    IF v < 128
    THEN (IF v < 8 THEN (IF v < 2 THEN v ELSE IF v < 4 THEN 2 ELSE 3)
          ELSE IF v < 32 THEN (IF v < 16 THEN 4 ELSE 5)
          ELSE IF v < 64 THEN 6 ELSE 7)
    ELSE (IF v < 2048
          THEN (IF v < 512 THEN (IF v < 256 THEN 8 ELSE 9)
                ELSE IF v < 1024 THEN 10 ELSE 11)
          ELSE IF v < 8192 THEN (IF v < 4096 THEN 12 ELSE 13)
          ELSE IF v < 16384 THEN 14 ELSE 15)

\* the number of binary digits of a
BigBitLen(a) == IF a = <<>> THEN 0 ELSE 15 * (Len(a) - 1) + BitLen(a[Len(a)])

\* binary digit i of a, the least significant being digit 0
BigBit(a, i) == (BigLimb(a, (i \div 15) + 1) \div (2 ^ (i % 15))) % 2

\* the binary digits of a below digit n are all 0
BigLowZero(a, n) ==
    /\ \A i \in 1..(n \div 15) : BigLimb(a, i) = 0
    /\ BigLimb(a, (n \div 15) + 1) % (2 ^ (n % 15)) = 0

\* the number of 0 digits below the lowest 1 digit of the limb v, 0 < v < 2^15
TrailingZeros(v) ==
    CHOOSE k \in 0..14 : v % (2 ^ k) = 0 /\ v % (2 ^ (k + 1)) # 0

BigTrailingZerosAt(a, j) == 15 * (j - 1) + TrailingZeros(a[j])

\* the number of 0 digits below the lowest 1 digit of a, a # 0
BigTrailingZeros(a) ==
    IF a[1] % 2 = 1 THEN 0
    ELSE BigTrailingZerosAt(a,
            CHOOSE j \in 1..Len(a) : a[j] # 0 /\ \A i \in 1..(j - 1) : a[i] = 0)

RECURSIVE BigMulPow10(_, _)
\* a * 10^k, by halves of k
BigMulPow10(a, k) ==
    IF k = 0 \/ a = <<>> THEN a
    ELSE IF k <= 4 THEN BigMulSmall(a, 10 ^ k)
    ELSE BigMulPow10(BigMulPow10(a, k \div 2), k - (k \div 2))

BigDivRest(d, rest) == [q |-> d.q, rest |-> rest \/ d.r # 0]

RECURSIVE BigDivPow10(_, _, _)
RECURSIVE BigDivPow10Then(_, _)
\* q = floor(a / 10^k), by halves of k, and rest: a division left a remainder
\* (or rest was true already)
BigDivPow10(a, k, rest) ==
    IF k = 0 \/ a = <<>> THEN [q |-> a, rest |-> rest]
    ELSE IF k <= 4 THEN BigDivRest(BigDivSmall(a, 10 ^ k), rest)
    ELSE BigDivPow10Then(BigDivPow10(a, k \div 2, rest), k - (k \div 2))

BigDivPow10Then(d, k) == BigDivPow10(d.q, k, d.rest)

RECURSIVE BigOfDigitsRange(_, _, _)
\* the natural written by the decimal digits s[lo..hi]
BigOfDigitsRange(s, lo, hi) ==
    IF lo > hi THEN <<>>
    ELSE IF hi - lo < 4 THEN BigOfNat(ShortRunValue(SubSeq(s, lo, hi)))
    ELSE BigAdd(BigMulPow10(BigOfDigitsRange(s, lo, (lo + hi) \div 2),
                            hi - ((lo + hi) \div 2)),
                BigOfDigitsRange(s, ((lo + hi) \div 2) + 1, hi))

BigOfDigits(s) == BigOfDigitsRange(s, 1, Len(s))

RECURSIVE BigToDigits(_, _)
RECURSIVE BigToDigitsStep(_, _)
\* the decimal digits of a in front of acc (none for 0)
BigToDigits(a, acc) ==
    IF a = <<>> THEN acc ELSE BigToDigitsStep(BigDivSmall(a, 10), acc)

BigToDigitsStep(d, acc) == BigToDigits(d.q, <<DigitChars[d.r + 1]>> \o acc)

\* a natural below 2^45 as an integer
BigToNat(a) == BigLimb(a, 1) + 32768 * BigLimb(a, 2) + 1073741824 * BigLimb(a, 3)

\* one binary digit of a quotient by b, from the remainder t brought down
BigDivBit(b, t) ==
    IF BigCmp(t, b) >= 0 THEN [q |-> <<1>>, r |-> BigSub(t, b)] ELSE [q |-> <<>>, r |-> t]

\* the digits q of the upper half in front of the n digits of the lower half
BigDivBitsJoin(q, n, low) ==
    IF q = <<>> THEN low ELSE [q |-> BigAdd(BigShl(q, n), low.q), r |-> low.r]

RECURSIVE BigDivBits(_, _, _, _, _)
RECURSIVE BigDivBitsLower(_, _, _, _, _)
\* the long division of a by b over the binary digits hi down to lo of a (the
\* least significant being digit 0), r < b being the remainder left above
\* digit hi: the digits of the quotient and the remainder left below digit lo
BigDivBits(a, b, lo, hi, r) ==
    IF lo = hi
    THEN BigDivBit(b, BigAdd(BigShl(r, 1), IF BigBit(a, lo) = 1 THEN <<1>> ELSE <<>>))
    ELSE BigDivBitsLower(a, b, lo, (lo + hi) \div 2,
                         BigDivBits(a, b, ((lo + hi) \div 2) + 1, hi, r))

\* the lower half after the upper half and its remainder
BigDivBitsLower(a, b, lo, hi, up) ==
    BigDivBitsJoin(up.q, hi - lo + 1, BigDivBits(a, b, lo, hi, up.r))

BigDivLong(d) == [q |-> d.q, rest |-> d.r # <<>>]

\* q = floor(a / b) for b # 0, and rest: the division left a remainder
BigDivMod(a, b) ==
    IF Len(b) = 1 THEN BigDivRest(BigDivSmall(a, b[1]), FALSE)
    ELSE IF BigCmp(a, b) < 0 THEN [q |-> <<>>, rest |-> a # <<>>]
    ELSE BigDivLong(BigDivBits(a, b, 0, BigBitLen(a) - BigBitLen(b),
                               BigShr(a, BigBitLen(a) - BigBitLen(b) + 1)))

\* ---------------------------------------------------------------- numbers
\* A JavaScript number, an IEEE 754 double: NaN, +Infinity or -Infinity
\* (inf = 1 or -1), or the finite value (-1 if neg) * man * 2^exp, with man a
\* large natural that is odd, or man = <<>> and exp = 0 for zero, so that
\* equal numbers are equal records.  (0 and -0, which print alike and compare
\* equal, are the one zero.)  Every operation rounds its exact result to 53
\* significant binary digits, ties to even, as the hardware does.
NaN == [nan |-> TRUE, inf |-> 0, neg |-> FALSE, man |-> <<>>, exp |-> 0]

PosInfinity == [nan |-> FALSE, inf |-> 1, neg |-> FALSE, man |-> <<>>, exp |-> 0]

NegInfinity == [nan |-> FALSE, inf |-> 0 - 1, neg |-> TRUE, man |-> <<>>, exp |-> 0]

Zero == [nan |-> FALSE, inf |-> 0, neg |-> FALSE, man |-> <<>>, exp |-> 0]

Infinity(neg) == IF neg THEN NegInfinity ELSE PosInfinity

IsFinite(a) == ~a.nan /\ a.inf = 0

\* floor(m / 2^drop) rounded up when the digits dropped are more than a half,
\* or a half and the floor is odd
BigRound(m, drop) ==
    IF drop = 0 THEN m
    ELSE BigAdd(BigShr(m, drop),
                IF BigBit(m, drop - 1) = 1
                    /\ (~BigLowZero(m, drop - 1) \/ BigBit(m, drop) = 1)
                THEN <<1>> ELSE <<>>)

DoubleOdd(neg, q, e, zeros) ==
    [nan |-> FALSE, inf |-> 0, neg |-> neg, man |-> BigShr(q, zeros), exp |-> e + zeros]

\* the number (-1 if neg) * q * 2^e for q of at most 53 digits, or the
\* infinity it overflows to
DoubleExact(neg, q, e) ==
    IF q = <<>> THEN Zero
    ELSE IF BigBitLen(q) + e > 1024 THEN Infinity(neg)
    ELSE DoubleOdd(neg, q, e, BigTrailingZeros(q))

DoubleRounded(neg, m, e, drop) == DoubleExact(neg, BigRound(m, drop), e + drop)

\* the double nearest to (-1 if neg) * m * 2^e: 53 digits are kept, fewer
\* below 2^-1022 (the subnormal numbers)
Double(neg, m, e) ==
    IF m = <<>> THEN Zero
    ELSE DoubleRounded(neg, m, e, MaxOf(MaxOf(BigBitLen(m) - 53, (0 - 1074) - e), 0))

DoubleOfQuotient(neg, d, s) ==
    Double(neg, BigAdd(BigShl(d.q, 1), IF d.rest THEN <<1>> ELSE <<>>), (0 - s) - 1)

DoubleOfScaled(neg, n, d, s) ==
    DoubleOfQuotient(neg,
        BigDivPow10(BigShl(BigMulPow10(n, MaxOf(0 - d, 0)), s), MaxOf(d, 0), FALSE), s)

\* the double nearest to (-1 if neg) * n / 10^d, n a large natural; for d > 0
\* the quotient is taken with more than 55 digits and one more that says
\* whether the division left a remainder
DoubleOfDecimal(neg, n, d) ==
    IF n = <<>> THEN Zero
    ELSE DoubleOfScaled(neg, n, d,
            IF d <= 0 THEN 0 ELSE MaxOf(0, 4 * d + 57 - BigBitLen(n)))

\* the number that a decimal literal of the source denotes: the double nearest
\* to n / 10^d (0.5 is Num(5, 1), -20 is Num(-20, 0)), |n| < 2^31
Num(n, d) == DoubleOfDecimal(n < 0, BigOfNat(IF n < 0 THEN 0 - n ELSE n), d)

NumInt(n) == Num(n, 0)

\* the order of the numbers of digits of |a| and |b|, or, when these are the
\* same, of the significands brought to the exponent e
MagCmpAt(a, b, e) ==
    IF BigBitLen(a.man) + a.exp # BigBitLen(b.man) + b.exp
    THEN (IF BigBitLen(a.man) + a.exp < BigBitLen(b.man) + b.exp THEN 0 - 1 ELSE 1)
    ELSE BigCmp(BigShl(a.man, a.exp - e), BigShl(b.man, b.exp - e))

\* -1, 0 or 1 as |a| < |b|, |a| = |b| or |a| > |b|, a and b finite, not zero
MagCmp(a, b) == MagCmpAt(a, b, MinOf(a.exp, b.exp))

\* -1, 0 or 1: the sign of a number that is not NaN
Sign(a) == IF a.inf # 0 THEN a.inf ELSE IF a.man = <<>> THEN 0
           ELSE IF a.neg THEN 0 - 1 ELSE 1

\* a < b for numbers that are not NaN
NumLess(a, b) ==
    IF a.inf # 0 \/ b.inf # 0 THEN a.inf < b.inf
    ELSE IF a.man = <<>> \/ b.man = <<>> \/ a.neg # b.neg THEN Sign(a) < Sign(b)
    ELSE (IF a.neg THEN 0 - 1 ELSE 1) * MagCmp(a, b) < 0

\* Math.min(a, b)
NumMin(a, b) == IF a.nan \/ b.nan THEN NaN ELSE IF NumLess(b, a) THEN b ELSE a

\* Math.max(a, b)
NumMax(a, b) == IF a.nan \/ b.nan THEN NaN ELSE IF NumLess(a, b) THEN b ELSE a

\* -a
NumNeg(a) ==
    IF a.nan THEN NaN
    ELSE IF a.inf # 0 THEN Infinity(a.inf > 0)
    ELSE IF a.man = <<>> THEN a
    ELSE [a EXCEPT !.neg = ~a.neg]

\* the sum of the finite non-zero a and b from their significands x and y
\* brought to the exponent e: x + y for the same signs, else x - y or y - x
\* with the sign of the larger
AddSigned(a, b, x, y, e) ==
    Double(IF a.neg = b.neg \/ BigCmp(x, y) >= 0 THEN a.neg ELSE b.neg,
           IF a.neg = b.neg THEN BigAdd(x, y)
           ELSE IF BigCmp(x, y) >= 0 THEN BigSub(x, y) ELSE BigSub(y, x),
           e)

AddAt(a, b, e) == AddSigned(a, b, BigShl(a.man, a.exp - e), BigShl(b.man, b.exp - e), e)

\* a + b
NumAdd(a, b) ==
    IF a.nan \/ b.nan \/ (a.inf # 0 /\ b.inf # 0 /\ a.inf # b.inf) THEN NaN
    ELSE IF a.inf # 0 THEN a
    ELSE IF b.inf # 0 THEN b
    ELSE IF a.man = <<>> THEN b
    ELSE IF b.man = <<>> THEN a
    ELSE AddAt(a, b, MinOf(a.exp, b.exp))

\* a - b
NumSub(a, b) == NumAdd(a, NumNeg(b))

\* a * b
NumMul(a, b) ==
    IF a.nan \/ b.nan THEN NaN
    ELSE IF a.inf # 0 \/ b.inf # 0
    THEN (IF Sign(a) * Sign(b) = 0 THEN NaN ELSE Infinity(Sign(a) * Sign(b) < 0))
    ELSE Double(a.neg # b.neg, BigMul(a.man, b.man), a.exp + b.exp)

\* a < b and a >= b: false when either is NaN
NumLt(a, b) == ~a.nan /\ ~b.nan /\ NumLess(a, b)

NumGe(a, b) == ~a.nan /\ ~b.nan /\ ~NumLess(a, b)

\* the literals 0.01, 0.005, 1, 2, 4, 6, 10 and 10000
Tenth == Num(1, 1)

Hundredth == Num(1, 2)

FiveThousandths == Num(5, 3)

One == NumInt(1)

Two == NumInt(2)

Four == NumInt(4)

Six == NumInt(6)

Ten == NumInt(10)

TenThousand == NumInt(10000)

DivRounded(neg, d, e) ==
    Double(neg, BigAdd(BigShl(d.q, 1), IF d.rest THEN <<1>> ELSE <<>>), e - 1)

\* the quotient of the finite non-zero a and b: the significand of a, made s
\* digits longer, is divided by the one of b
DivAt(a, b, s) ==
    DivRounded(a.neg # b.neg, BigDivMod(BigShl(a.man, s), b.man), a.exp - b.exp - s)

\* a / b: the quotient is taken with 55 digits or more and one more that says
\* whether the division left a remainder.  (The one zero is +0: a divisor -0,
\* which no division of the source meets, would turn the sign of an infinite
\* quotient.)
NumDiv(a, b) ==
    IF a.nan \/ b.nan THEN NaN
    ELSE IF a.inf # 0 THEN (IF b.inf # 0 THEN NaN ELSE Infinity(a.neg # b.neg))
    ELSE IF b.inf # 0 THEN Zero
    ELSE IF b.man = <<>> THEN (IF a.man = <<>> THEN NaN ELSE Infinity(a.neg))
    ELSE IF a.man = <<>> THEN Zero
    ELSE IF a.man = b.man THEN Double(a.neg # b.neg, <<1>>, a.exp - b.exp)
    ELSE DivAt(a, b, MaxOf(0, BigBitLen(b.man) + 55 - BigBitLen(a.man)))

\* man * 2^exp >= 10^k
AtLeastPow10(man, exp, k) ==
    BigCmp(BigMulPow10(BigShl(man, MaxOf(exp, 0)), MaxOf(0 - k, 0)),
           BigShl(BigMulPow10(<<1>>, MaxOf(k, 0)), MaxOf(0 - exp, 0))) >= 0

\* the exponent of the last of the 53 binary digits of the finite non-zero x
\* (of the digits it has, below 2^-1022)
UlpExp(x) == MaxOf(BigBitLen(x.man) + x.exp - 53, 0 - 1074)

\* the double next above the finite x > 0
NumSucc(x) == Double(FALSE, BigAdd(BigShl(x.man, x.exp - UlpExp(x)), <<1>>), UlpExp(x))

PredExp(x) == IF x.man = <<1>> THEN MaxOf(x.exp - 53, 0 - 1074) ELSE UlpExp(x)

\* the double next below the finite x > 0: below a power of 2 the doubles are
\* twice as close
NumPred(x) == Double(FALSE, BigSub(BigShl(x.man, x.exp - PredExp(x)), <<1>>), PredExp(x))

\* 10^k for 0 <= k <= 22, which are the powers of 10 that are doubles
ExactPow10 == [k \in 0..22 |-> Double(FALSE, BigMulPow10(<<1>>, k), 0)]

\* the two doubles around 10^k, from the nearest one
Pow10Near(k, n) ==
    IF n.inf # 0 \/ n.man = <<>> THEN {n}
    ELSE IF AtLeastPow10(n.man, n.exp, k) THEN {NumPred(n), n}
    ELSE {n, NumSucc(n)}

Pow10Around(k) ==
    IF 0 <= k /\ k <= 22 THEN {ExactPow10[k]}
    ELSE Pow10Near(k, DoubleOfDecimal(FALSE, <<1>>, 0 - k))

\* floor(log2(10) * 2^136), from the first 50 decimals of log2(10)
Log2Of10 ==
    BigDivPow10(BigShl(BigOfDigits(
        <<"3", "3", "2", "1", "9", "2", "8", "0", "9", "4", "8", "8",
          "7", "3", "6", "2", "3", "4", "7", "8", "7", "0", "3", "1",
          "9", "4", "2", "9", "4", "8", "9", "3", "9", "0", "1", "7",
          "5", "8", "6", "4", "8", "3", "1", "3", "9", "3", "0", "2",
          "4", "5", "8">>), 136), 50, FALSE).q

\* floor(ln(2) * 2^120), from the first 50 decimals of ln(2)
LnOf2 ==
    BigDivPow10(BigShl(BigOfDigits(
        <<"6", "9", "3", "1", "4", "7", "1", "8", "0", "5", "5", "9",
          "9", "4", "5", "3", "0", "9", "4", "1", "7", "2", "3", "2",
          "1", "2", "1", "4", "5", "8", "1", "7", "6", "5", "6", "8",
          "0", "7", "5", "5", "0", "0", "1", "3", "4", "3", "6", "0",
          "2", "5">>), 120), 50, FALSE).q

RECURSIVE ExpTerms(_, _, _, _)
\* acc and the terms y^m / m! of the exponential series from the n-th, t, on,
\* in units of 2^-120 and each rounded down, until they round to 0
ExpTerms(y, t, n, acc) ==
    IF t = <<>> THEN acc
    ELSE ExpTerms(y, BigDivSmall(BigShr(BigMul(t, y), 120), n + 1).q, n + 1,
                  BigAdd(acc, t))

\* 2^(g / 2^120) in units of 2^-120, rounded down: less than 2^8 units below
\* a power whose exponent is less than 2 units above g
Exp2Below(g) == ExpTerms(BigShr(BigMul(g, LnOf2), 120), BigShl(<<1>>, 120), 0, <<>>)

\* |d| * log2(10) in units of 2^-120, rounded down and less than 2 units below
Log2Scaled(d) == BigShr(BigMul(d.man, Log2Of10), 16 - d.exp)

\* 10^d for a finite d with a fraction, |d| < 512, as lo * 2^e < 10^d < hi * 2^e:
\* 10^d = 2^i * 2^f with i whole, f = g / 2^120 from 0 to 1 and 2^f by its
\* series; 10^d is no double, and it is below 1 for d < 0
Pow10Bounds(d) ==
    LET a  == Log2Scaled(d)
        up == BigToNat(BigShr(BigAdd(a, <<2>>), 120)) + 1
        i  == IF d.neg THEN 0 - up ELSE BigToNat(BigShr(a, 120))
        g  == IF d.neg THEN BigSub(BigShl(BigOfNat(up), 120), BigAdd(a, <<2>>))
              ELSE BigSub(a, BigShl(BigShr(a, 120), 120))
        lo == Exp2Below(g)
        hi == BigAdd(lo, <<256>>)
    IN  [lo |-> lo,
         hi |-> IF d.neg /\ i = 0 - 1 /\ BigCmp(hi, BigShl(<<1>>, 121)) > 0
                THEN BigShl(<<1>>, 121) ELSE hi,
         e  |-> i - 120]

\* the places of m that no double holds: those past 53 and those below 2^-1074
PlacesDropped(m, e) == MaxOf(MaxOf(BigBitLen(m) - 53, (0 - 1074) - e), 0)

\* the largest double that is at most m * 2^e, for 0 < m * 2^e < 2^1024
DoubleBelow(m, e) ==
    DoubleExact(FALSE, BigShr(m, PlacesDropped(m, e)), e + PlacesDropped(m, e))

\* the smallest double that is at least m * 2^e, or Infinity
DoubleAbove(m, e) ==
    DoubleExact(FALSE,
        BigAdd(BigShr(m, PlacesDropped(m, e)),
               IF BigLowZero(m, PlacesDropped(m, e)) THEN <<>> ELSE <<1>>),
        e + PlacesDropped(m, e))

\* the doubles from below to above, which are next to each other unless a
\* double lies between the two bounds of 10^d
DoublesFrom(below, above) ==
    IF below.man = <<>> THEN {below, Double(FALSE, <<1>>, 0 - 1074), above}
    ELSE {below, NumSucc(below), above}

\* the doubles around 10^d for a d with a fraction; as for a whole d, the one
\* value is Infinity or 0 where that is the double nearest to 10^d
Pow10Between(b) ==
    IF ~IsFinite(Double(FALSE, b.lo, b.e)) \/ Double(FALSE, b.lo, b.e).man = <<>>
    THEN {Double(FALSE, b.lo, b.e)}
    ELSE DoublesFrom(DoubleBelow(b.lo, b.e), DoubleAbove(b.hi, b.e))

\* Math.pow(10, n) for a whole n >= 1 where the engine raises to a whole power
\* by repeated squaring (the V8 of node 10): each product is rounded to a
\* double, so the result can be several doubles away from 10^n
RECURSIVE PowBySquaring(_, _, _)
PowBySquaring(n, base, result) ==
    IF n = 0 THEN result
    ELSE PowBySquaring(n \div 2,
                       IF n \div 2 = 0 THEN base ELSE NumMul(base, base),
                       IF n % 2 = 1 THEN NumMul(result, base) ELSE result)

\* what such an engine returns for the whole k: for k < 0 it divides 1 by the
\* power for -k, and where that quotient is 0 it leaves the result to the
\* library's pow (none of its own)
Pow10Squared(k) ==
    IF k >= 0 THEN {PowBySquaring(k, Ten, One)}
    ELSE {NumDiv(One, PowBySquaring(0 - k, Ten, One))} \ {Zero}

\* The values that Math.pow(10, d) can have.  Math.pow is implementation-
\* approximated: where 10^d is a double (the integers d from 0 to 22) it is
\* that double; for another d it is a double next to 10^d, not always the
\* nearer of the two, or for a whole d the result of repeated squaring, which
\* can lie farther away; it is Infinity or 0 where 10^d is beyond every
\* double (|d| >= 512 is so whatever the fraction).
Pow10Set(d) ==
    IF d.nan THEN {NaN}
    ELSE IF d.inf # 0 THEN {IF d.inf > 0 THEN PosInfinity ELSE Zero}
    ELSE IF d.man = <<>> THEN {One}
    ELSE IF BigBitLen(d.man) + d.exp > 9 THEN {IF d.neg THEN Zero ELSE PosInfinity}
    ELSE IF d.exp < 0 THEN Pow10Between(Pow10Bounds(d))
    ELSE Pow10Around((IF d.neg THEN 0 - 1 ELSE 1) * BigToNat(d.man) * (2 ^ d.exp))
         \cup Pow10Squared((IF d.neg THEN 0 - 1 ELSE 1) * BigToNat(d.man) * (2 ^ d.exp))

\* Pow10Set(d), computed once, for the digit counts that formats have most
Pow10Kept ==
    [d \in {One, Two, NumInt(3), NumInt(23), Num(25, 1)} |-> Pow10Set(d)]

\* a / 2
NumHalf(a) == IF IsFinite(a) THEN Double(a.neg, a.man, a.exp - 1) ELSE a

\* the end (exclusive) of the exponent part [eE][+-]?\d+ at i, or i when there
\* is none
ExponentEnd(s, i) ==
    IF AtIn(s, i, {"e", "E"})
            /\ AtDigit(s, IF AtIn(s, i + 1, {"+", "-"}) THEN i + 2 ELSE i + 1)
    THEN DigitRunEnd(s, IF AtIn(s, i + 1, {"+", "-"}) THEN i + 2 ELSE i + 1)
    ELSE i

\* the value of the digits of an exponent; one of more than 8 digits stands
\* for 10^8, which takes every number to zero or to infinity as well
ExponentValue(digits) ==
    IF Len(digits) > 8 /\ \E i \in 1..(Len(digits) - 8) : digits[i] # "0"
    THEN 100000000
    ELSE ShortRunValue(SubSeq(digits, MaxOf(1, Len(digits) - 7), Len(digits)))

\* the exponent written in s[b..x-1], 0 when x = b
ExponentOf(s, b, x) ==
    IF x = b THEN 0
    ELSE (IF At(s, b + 1, "-") THEN 0 - 1 ELSE 1)
            * ExponentValue(SubSeq(s, IF AtIn(s, b + 1, {"+", "-"}) THEN b + 2 ELSE b + 1,
                                   x - 1))

\* the number written by the digits n with the point d digits from their end:
\* infinity and zero when the value is beyond every double, without the
\* division
DoubleOfDigits(neg, n, d) ==
    IF n = <<>> THEN Zero
    ELSE IF (((BigBitLen(n) - 1) * 3) \div 10) - d > 310 THEN Infinity(neg)
    ELSE IF ((BigBitLen(n) * 4) \div 10) + 1 - d < 0 - 330 THEN Zero
    ELSE DoubleOfDecimal(neg, n, d)

\* parseInt(s, 10) on a text of the form [+-]?\d+ (every call site passes a
\* capture of that form): the double nearest to the integer written
parseInt10(s) ==
    IF At(s, 1, "-") THEN DoubleOfDigits(TRUE, BigOfDigits(SliceFrom(s, 1)), 0)
    ELSE IF At(s, 1, "+") THEN DoubleOfDigits(FALSE, BigOfDigits(SliceFrom(s, 1)), 0)
    ELSE DoubleOfDigits(FALSE, BigOfDigits(s), 0)

\* the digits ip before the point, fp after it, and the exponent s[b..x-1]
parseFloatParts(s, neg, ip, fp, b, x) ==
    IF ip = <<>> /\ fp = <<>> THEN NaN
    ELSE DoubleOfDigits(neg, BigOfDigits(ip \o fp), Len(fp) - ExponentOf(s, b, x))

\* the digits s[p..a-1], and after a point at a the digits s[a+1..b-1] (b = a
\* without a point)
parseFloatFraction(s, neg, p, a, b) ==
    parseFloatParts(s, neg, SubSeq(s, p, a - 1), SubSeq(s, a + 1, b - 1), b,
                    ExponentEnd(s, b))

parseFloatDigits(s, neg, p, a) ==
    parseFloatFraction(s, neg, p, a, IF At(s, a, ".") THEN DigitRunEnd(s, a + 1) ELSE a)

parseFloatFrom(s, neg, p) ==
    IF StartsWith(SubSeq(s, p, Len(s)), <<"I", "n", "f", "i", "n", "i", "t", "y">>)
    THEN Infinity(neg)
    ELSE parseFloatDigits(s, neg, p, IF p <= Len(s) + 1 THEN DigitRunEnd(s, p) ELSE p)

parseFloatAt(s, w) ==
    parseFloatFrom(s, At(s, w, "-"), IF AtIn(s, w, {"+", "-"}) THEN w + 1 ELSE w)

\* parseFloat(s): skip white space, then the longest prefix
\* [+-]? ( Infinity | ( \d+ (\. \d*)? | \. \d+ ) ([eE] [+-]? \d+)? ); NaN when
\* there is none
parseFloat(s) == parseFloatAt(s, SpaceRunEnd(s, 1))

\* the n with 10^(n-1) <= x < 10^n for the finite x > 0, from the number of
\* binary digits of x and log10(2) = 0.30103
DecimalExponentFrom(x, est) == IF AtLeastPow10(x.man, x.exp, est) THEN est + 1 ELSE est

DecimalExponent(x) ==
    DecimalExponentFrom(x, (((BigBitLen(x.man) + x.exp - 1) * 30103) \div 100000) + 1)

TwiceScaledShift(d, sh) ==
    [q |-> BigShr(d.q, sh), rest |-> d.rest \/ ~BigLowZero(d.q, sh)]

\* floor(2 * |x| / 10^c) and whether it left a remainder
TwiceScaled(x, c) ==
    TwiceScaledShift(
        BigDivPow10(BigMulPow10(BigShl(x.man, MaxOf(x.exp + 1, 0)), MaxOf(0 - c, 0)),
                    MaxOf(c, 0), FALSE),
        MaxOf(0 - (x.exp + 1), 0))

\* the decimal s * 10^c is read back as x
ReadsBack(x, s, c) == DoubleOfDecimal(x.neg, s, 0 - c) = x

\* of the two naturals around x / 10^c, t being twice that quotient, the nearer
\* one (the even one when they are as near) and the other one
ShortestUpper(t) == BigBit(t.q, 0) = 1 /\ (t.rest \/ BigBit(t.q, 1) = 1)

ShortestNear(t) == BigAdd(BigShr(t.q, 1), IF ShortestUpper(t) THEN <<1>> ELSE <<>>)

ShortestFar(t) == BigAdd(BigShr(t.q, 1), IF ShortestUpper(t) THEN <<>> ELSE <<1>>)

ReadsBackEither(x, c, t) ==
    ReadsBack(x, ShortestNear(t), c) \/ ReadsBack(x, ShortestFar(t), c)

\* a natural s of k digits has s * 10^(n-k) read back as x; 17 digits always do
ShortestReads(x, n, k) == k >= 17 \/ ReadsBackEither(x, n - k, TwiceScaled(x, n - k))

RECURSIVE ShortestLength(_, _, _, _)
\* the fewest digits in lo..hi that read back as x, hi digits doing so; more
\* digits read back when fewer do
ShortestLength(x, n, lo, hi) ==
    IF lo >= hi THEN hi
    ELSE IF ShortestReads(x, n, (lo + hi) \div 2)
    THEN ShortestLength(x, n, lo, (lo + hi) \div 2)
    ELSE ShortestLength(x, n, ((lo + hi) \div 2) + 1, hi)

ShortestPick(x, c, k, t) ==
    [s |-> IF k >= 17 \/ ReadsBack(x, ShortestNear(t), c)
           THEN ShortestNear(t) ELSE ShortestFar(t),
     k |-> k]

ShortestWith(x, n, k) == ShortestPick(x, n - k, k, TwiceScaled(x, n - k))

\* the fewest digits k, up to 17, and the natural s of k digits with
\* s * 10^(n-k) read back as x, the nearer to x / 10^(n-k) of the two around it
\* if it does
ShortestFrom(x, n) == ShortestWith(x, n, ShortestLength(x, n, 1, 17))

RECURSIVE StripZeros(_)
StripZeros(s) ==
    IF Len(s) > 1 /\ s[Len(s)] = "0" THEN StripZeros(SliceDropLast(s)) ELSE s

\* the digits of Number::toString and the n with |x| = 0.digits * 10^n
ShortestDigitsOf(n, k, digits) ==
    [digits |-> StripZeros(digits), n |-> n + (Len(digits) - k)]

ShortestDigitsAt(n, r) == ShortestDigitsOf(n, r.k, BigToDigits(r.s, <<>>))

ShortestDigitsFrom(x, n) == ShortestDigitsAt(n, ShortestFrom(x, n))

ShortestDigits(x) == ShortestDigitsFrom(x, DecimalExponent(x))

Zeros(n) == [i \in 1..n |-> "0"]

\* Number::toString from the digits and the decimal exponent n
FormatDigits(digits, n) ==
    IF Len(digits) <= n /\ n <= 21 THEN digits \o Zeros(n - Len(digits))
    ELSE IF 0 < n /\ n <= 21
    THEN SubSeq(digits, 1, n) \o <<".">> \o SubSeq(digits, n + 1, Len(digits))
    ELSE IF 0 - 6 < n /\ n <= 0 THEN <<"0", ".">> \o Zeros(0 - n) \o digits
    ELSE (IF Len(digits) = 1 THEN digits
          ELSE <<digits[1], ".">> \o SubSeq(digits, 2, Len(digits)))
            \o <<"e">> \o (IF n - 1 < 0 THEN <<"-">> ELSE <<"+">>)
            \o BigToDigits(BigOfNat(IF n - 1 < 0 THEN 1 - n ELSE n - 1), <<>>)

FormatShortest(r) == FormatDigits(r.digits, r.n)

\* `${x}` for a number x.  An integer below 2^53 is written by all its
\* digits: no other integer is read back as x, and Number::toString fills the
\* digits it left out with zeros.
NumToStr(x) ==
    IF x.nan THEN <<"N", "a", "N">>
    ELSE IF x.inf # 0
    THEN (IF x.inf < 0 THEN <<"-">> ELSE <<>>)
            \o <<"I", "n", "f", "i", "n", "i", "t", "y">>
    ELSE IF x.man = <<>> THEN <<"0">>
    ELSE (IF x.neg THEN <<"-">> ELSE <<>>)
            \o (IF x.exp >= 0 /\ BigBitLen(x.man) + x.exp <= 53
                THEN BigToDigits(BigShl(x.man, x.exp), <<>>)
                ELSE FormatShortest(ShortestDigits(x)))

\* -------------------------------------------------------------- tokenizer
\* Positions are 0-based, as in the source.
isAtEnd(s, pos) == pos >= Len(s)

peek(s, pos) == IF pos < Len(s) THEN s[pos + 1] ELSE ""

\* line and column that advance() has counted after consuming pos characters
LineAt(s, pos) == 1 + Cardinality({k \in 1..pos : k <= Len(s) /\ s[k] = "\n"})

ColumnAt(s, pos) ==
    LET nl == {k \in 1..pos : k <= Len(s) /\ s[k] = "\n"}
        last == IF nl = {} THEN 0 ELSE CHOOSE k \in nl : \A m \in nl : m <= k
    IN  1 + (pos - last)

\* only spaces are skipped
skipWhitespaceAndNewlines_spacesOnly(s, pos) ==
    CHOOSE j \in pos..Len(s) :
        /\ \A k \in pos..(j - 1) : s[k + 1] = " "
        /\ (j = Len(s) \/ s[j + 1] # " ")

\* the position of the first character that is not white space, from pos on
skipWhitespaceAndNewlines(s, pos) ==
    CHOOSE j \in pos..Len(s) :
        /\ \A k \in pos..(j - 1) : s[k + 1] \in TokenizerSpace
        /\ (j = Len(s) \/ s[j + 1] \notin TokenizerSpace)

\* first position >= from holding c, or Len(s) when there is none
FindFrom(s, from, c) ==
    CHOOSE j \in from..Len(s) :
        /\ (j = Len(s) \/ s[j + 1] = c)
        /\ \A k \in from..(j - 1) : s[k + 1] # c

\* the trailing star of the block is dropped from the value
readExtendedCommand_stripsStar(s, pos) ==
    LET close == FindFrom(s, pos + 1, "%")
        value == SubSeq(s, pos + 2, close)
    IN  [token |-> [type   |-> "EXTENDED_COMMAND",
                    value  |-> IF EndsWith(value, <<"*">>) THEN SliceDropLast(value)
                               ELSE value,
                    line   |-> LineAt(s, pos),
                    column |-> ColumnAt(s, pos)],
         pos   |-> IF close < Len(s) THEN close + 1 ELSE Len(s)]

\* the token read at pos (which holds "%") and the position after it
readExtendedCommand(s, pos) ==
    LET close == FindFrom(s, pos + 1, "%")
    IN  [token |-> [type   |-> "EXTENDED_COMMAND",
                    value  |-> SubSeq(s, pos + 2, close),
                    line   |-> LineAt(s, pos),
                    column |-> ColumnAt(s, pos)],
         pos   |-> IF close < Len(s) THEN close + 1 ELSE Len(s)]

\* the token read at pos and the position after it; the last accumulated
\* character is removed whether or not it is the star
readCommand(s, pos) ==
    LET star == FindFrom(s, pos, "*")
        stop == IF star < Len(s) THEN star + 1 ELSE Len(s)
        acc  == SubSeq(s, pos + 1, stop)
    IN  [token |-> [type   |-> "COMMAND",
                    value  |-> SliceDropLast(acc),
                    line   |-> LineAt(s, pos),
                    column |-> ColumnAt(s, pos)],
         pos   |-> stop]

\* one iteration of the loop of tokenize() that reads a token; p is the
\* position after the white space was skipped
readToken(s, p) ==
    IF peek(s, p) = "%" THEN readExtendedCommand(s, p) ELSE readCommand(s, p)

EofToken(s, pos) ==
    [type |-> "EOF", value |-> <<>>, line |-> LineAt(s, pos), column |-> ColumnAt(s, pos)]

RECURSIVE tokenizeFrom(_, _, _)
tokenizeFrom(s, pos, acc) ==
    IF isAtEnd(s, pos) \/ isAtEnd(s, skipWhitespaceAndNewlines(s, pos))
    THEN Append(acc, EofToken(s, skipWhitespaceAndNewlines(s, pos)))
    ELSE LET r == readToken(s, skipWhitespaceAndNewlines(s, pos))
         IN  tokenizeFrom(s, r.pos, Append(acc, r.token))

tokenize(s) == tokenizeFrom(s, 0, <<>>)

\* ------------------------------------------------------------------ nodes
None == <<>>

Some(v) == <<v>>

\* a ?? b
OrElse(opt, default) == IF opt = None THEN default ELSE opt[1]

\* what a constructor that throws leaves in place of a node
Thrown == [type |-> "Error"]

\* parseToken's null
NullNode == [type |-> "null"]

UnknownCommand(raw) == [type |-> "UnknownCommand", raw |-> raw]

\* every field of the initialiser is optional; the digit counts are numbers
FormatSpecification(zo, cm, xi, xd, yi, yd) ==
    [type           |-> "FormatSpecification",
     zeroOmission   |-> OrElse(zo, "L"),
     coordinateMode |-> OrElse(cm, "A"),
     xIntegerDigits |-> OrElse(xi, Two),
     xDecimalDigits |-> OrElse(xd, Six),
     yIntegerDigits |-> OrElse(yi, Two),
     yDecimalDigits |-> OrElse(yd, Six)]

UnitMode(unit) == [type |-> "UnitMode", unit |-> unit]

\* params is optional
ApertureDefinition(code, template, params) ==
    [type |-> "ApertureDefinition", code |-> code, template |-> template,
     params |-> OrElse(params, <<>>)]

ApertureMacro(name, content) ==
    [type |-> "ApertureMacro", name |-> name, content |-> content]

LoadPolarity(polarity) == [type |-> "LoadPolarity", polarity |-> polarity]

LoadMirroring(mirroring) == [type |-> "LoadMirroring", mirroring |-> mirroring]

LoadRotation(angle) == [type |-> "LoadRotation", angle |-> angle]

LoadScaling(scale) == [type |-> "LoadScaling", scale |-> scale]

\* every field of the initialiser is optional
StepRepeat(x, y, i, j) ==
    [type |-> "StepRepeat", x |-> OrElse(x, One), y |-> OrElse(y, One),
     i |-> OrElse(i, Zero), j |-> OrElse(j, Zero)]

\* values is optional
FileAttribute(name, values) ==
    [type |-> "FileAttribute", name |-> name, values |-> OrElse(values, <<>>)]

\* values is optional
ApertureAttribute(name, values) ==
    [type |-> "ApertureAttribute", name |-> name, values |-> OrElse(values, <<>>)]

\* values is optional
ObjectAttribute(name, values) ==
    [type |-> "ObjectAttribute", name |-> name, values |-> OrElse(values, <<>>)]

\* name is optional
DeleteAttribute(name) == [type |-> "DeleteAttribute", name |-> name]

SetInterpolationMode(mode) == [type |-> "SetInterpolationMode", mode |-> mode]

Comment(content) == [type |-> "Comment", text |-> content]

RegionStart == [type |-> "RegionStart"]

RegionEnd == [type |-> "RegionEnd"]

EndOfFile == [type |-> "EndOfFile"]

SetImagePolarity(polarity) == [type |-> "SetImagePolarity", polarity |-> polarity]

\* a and b are optional
SetOffset(a, b) == [type |-> "SetOffset", a |-> OrElse(a, Zero), b |-> OrElse(b, Zero)]

D01 == <<"D", "0", "1">>

D02 == <<"D", "0", "2">>

D03 == <<"D", "0", "3">>

\* Interpolate, Move or Flash by d-code; x, y, i, j are optional numbers
createOperation(dcode, x, y, i, j) ==
    [type  |-> IF dcode = D01 THEN "Interpolate"
               ELSE IF dcode = D02 THEN "Move" ELSE "Flash",
     dcode |-> dcode, x |-> x, y |-> y, i |-> i, j |-> j]

OperationTypes == {"Interpolate", "Move", "Flash"}

\* cmd instanceof Operation
IsOperation(n) == n.type \in OperationTypes

\* the constructor accepts every code
SelectAperture_unchecked(code) == [type |-> "SelectAperture", code |-> code]

\* the constructor throws for a code below 10
SelectAperture(code) ==
    IF NumLt(code, Ten) THEN Thrown ELSE [type |-> "SelectAperture", code |-> code]

\* ---------------------------------------------------------- serialization
RECURSIVE Join(_, _)
\* parts.join(sep)
Join(parts, sep) ==
    IF parts = <<>> THEN <<>>
    ELSE IF Len(parts) = 1 THEN parts[1]
    ELSE parts[1] \o sep \o Join(Tail(parts), sep)

AttributeString(prefix, n) ==
    <<"%">> \o prefix \o n.name
        \o (IF Len(n.values) > 0 THEN <<",">> \o Join(n.values, <<",">>) ELSE <<>>)
        \o <<"*", "%">>

OperationString(n) ==
    (IF n.x # None THEN <<"X">> \o NumToStr(n.x[1]) ELSE <<>>)
        \o (IF n.y # None THEN <<"Y">> \o NumToStr(n.y[1]) ELSE <<>>)
        \o (IF n.i # None THEN <<"I">> \o NumToStr(n.i[1]) ELSE <<>>)
        \o (IF n.j # None THEN <<"J">> \o NumToStr(n.j[1]) ELSE <<>>)
        \o n.dcode \o <<"*">>

\* node.getString()
NodeGetString(n) ==
    CASE n.type = "UnknownCommand" -> n.raw
      [] n.type = "FormatSpecification" ->
            <<"%", "F", "S">> \o Str1(n.zeroOmission) \o Str1(n.coordinateMode)
                \o <<"X">> \o NumToStr(n.xIntegerDigits) \o NumToStr(n.xDecimalDigits)
                \o <<"Y">> \o NumToStr(n.yIntegerDigits) \o NumToStr(n.yDecimalDigits)
                \o <<"*", "%">>
      [] n.type = "UnitMode" -> <<"%", "M", "O">> \o n.unit \o <<"*", "%">>
      [] n.type = "ApertureDefinition" ->
            <<"%", "A", "D", "D">> \o NumToStr(n.code) \o n.template
                \o (IF Len(n.params) > 0
                    THEN <<",">> \o Join([k \in 1..Len(n.params) |-> NumToStr(n.params[k])],
                                         <<"X">>)
                    ELSE <<>>)
                \o <<"*", "%">>
      [] n.type = "ApertureMacro" ->
            <<"%", "A", "M">> \o n.name \o <<"*">> \o n.content \o <<"%">>
      [] n.type = "LoadPolarity" -> <<"%", "L", "P">> \o n.polarity \o <<"*", "%">>
      [] n.type = "LoadMirroring" -> <<"%", "L", "M">> \o n.mirroring \o <<"*", "%">>
      [] n.type = "LoadRotation" -> <<"%", "L", "R">> \o NumToStr(n.angle) \o <<"*", "%">>
      [] n.type = "LoadScaling" -> <<"%", "L", "S">> \o NumToStr(n.scale) \o <<"*", "%">>
      [] n.type = "StepRepeat" ->
            IF n.x = One /\ n.y = One /\ n.i = Zero /\ n.j = Zero
            THEN <<"%", "S", "R", "*", "%">>
            ELSE <<"%", "S", "R", "X">> \o NumToStr(n.x) \o <<"Y">> \o NumToStr(n.y)
                    \o <<"I">> \o NumToStr(n.i) \o <<"J">> \o NumToStr(n.j)
                    \o <<"*", "%">>
      [] n.type = "FileAttribute" -> AttributeString(<<"T", "F", ".">>, n)
      [] n.type = "ApertureAttribute" -> AttributeString(<<"T", "A", ".">>, n)
      [] n.type = "ObjectAttribute" -> AttributeString(<<"T", "O", ".">>, n)
      [] n.type = "DeleteAttribute" ->
            IF n.name # None /\ n.name[1] # <<>>
            THEN <<"%", "T", "D", ".">> \o n.name[1] \o <<"*", "%">>
            ELSE <<"%", "T", "D", "*", "%">>
      [] n.type = "SetInterpolationMode" -> n.mode \o <<"*">>
      [] n.type = "Comment" -> <<"G", "0", "4", " ">> \o n.text \o <<"*">>
      [] n.type = "RegionStart" -> <<"G", "3", "6", "*">>
      [] n.type = "RegionEnd" -> <<"G", "3", "7", "*">>
      [] n.type \in OperationTypes -> OperationString(n)
      [] n.type = "SelectAperture" -> <<"D">> \o NumToStr(n.code) \o <<"*">>
      [] n.type = "EndOfFile" -> <<"M", "0", "2", "*">>
      [] n.type = "SetImagePolarity" -> <<"%", "I", "P">> \o n.polarity \o <<"*", "%">>
      [] n.type = "SetOffset" ->
            <<"%", "O", "F", "A">> \o NumToStr(n.a) \o <<"B">> \o NumToStr(n.b)
                \o <<"*", "%">>

\* the texts joined by a newline, with no newline after the last
getString_noTrailingNewline(cmds) ==
    Join([k \in 1..Len(cmds) |-> NodeGetString(cmds[k])], <<"\n">>)

\* GerberFile.getString(): the nodes' texts joined by a newline, plus a newline
getString(cmds) ==
    Join([k \in 1..Len(cmds) |-> NodeGetString(cmds[k])], <<"\n">>) \o <<"\n">>

\* ---------------------------------------------------------------- matching
RECURSIVE Split(_, _)
\* s.split(c)
Split(s, c) ==
    LET k == IndexOf(s, c)
    IN  IF k = -1 THEN <<s>>
        ELSE <<SubSeq(s, 1, k)>> \o Split(SliceFrom(s, k + 1), c)

\* leftmost i with P: the unanchored search of String.match
Leftmost(hits) == CHOOSE i \in hits : \A k \in hits : i <= k

\* s.match(/L(\d)(\d)/) for a letter L: the two captures, or None
TwoDigitField(s, letter) ==
    LET hits == {i \in 1..Len(s) : s[i] = letter /\ AtDigit(s, i + 1) /\ AtDigit(s, i + 2)}
    IN  IF hits = {} THEN None
        ELSE Some(<<s[Leftmost(hits) + 1], s[Leftmost(hits) + 2]>>)

\* s.match(/L([+-]?\d+)/) for a letter L: the capture, or None
IntField(s, letter) ==
    LET hits == {i \in 1..Len(s) : s[i] = letter /\ SignedIntEnd(s, i + 1) # 0}
    IN  IF hits = {} THEN None
        ELSE Some(SubSeq(s, Leftmost(hits) + 1, SignedIntEnd(s, Leftmost(hits) + 1) - 1))

\* s.match(/L(\d+)/) for a letter L: the capture, or None
NatField(s, letter) ==
    LET hits == {i \in 1..Len(s) : s[i] = letter /\ AtDigit(s, i + 1)}
    IN  IF hits = {} THEN None
        ELSE Some(SubSeq(s, Leftmost(hits) + 1, DigitRunEnd(s, Leftmost(hits) + 1) - 1))

\* s.match(/L([+-]?\d*\.?\d+)/) for a letter L: the capture, or None
RealField(s, letter) ==
    LET hits == {i \in 1..Len(s) : s[i] = letter /\ SignedRealEnd(s, i + 1) # 0}
    IN  IF hits = {} THEN None
        ELSE Some(SubSeq(s, Leftmost(hits) + 1, SignedRealEnd(s, Leftmost(hits) + 1) - 1))

OneTwoThree == {"1", "2", "3"}

\* L0?[123] at i for a letter L: its end (exclusive), or 0 when it does not match
CodeEnd(s, i, letter) ==
    IF ~At(s, i, letter) THEN 0
    ELSE IF At(s, i + 1, "0") /\ AtIn(s, i + 2, OneTwoThree) THEN i + 3
    ELSE IF AtIn(s, i + 1, OneTwoThree) THEN i + 2
    ELSE 0

\* s.match(/D0?([123])/): the capture, or None
DCodeField(s) ==
    LET hits == {i \in 1..Len(s) : CodeEnd(s, i, "D") # 0}
    IN  IF hits = {} THEN None
        ELSE Some(s[CodeEnd(s, Leftmost(hits), "D") - 1])

\* (L[+-]?\d+)? at i: the position after the optional group
OptFieldEnd(s, i, letter) ==
    IF At(s, i, letter) /\ SignedIntEnd(s, i + 1) # 0 THEN SignedIntEnd(s, i + 1) ELSE i

\* the position after (X..)?(Y..)?(I..)?(J..)? starting at i
CoordsEnd(s, i) ==
    OptFieldEnd(s, OptFieldEnd(s, OptFieldEnd(s, OptFieldEnd(s, i, "X"), "Y"), "I"), "J")

\* /^D(\d+)$/: the capture, or None
apertureMatch(value) ==
    IF At(value, 1, "D") /\ Len(value) >= 2 /\ DigitRunEnd(value, 2) = Len(value) + 1
    THEN Some(SliceFrom(value, 1))
    ELSE None

\* /^(X[+-]?\d+)?(Y[+-]?\d+)?(I[+-]?\d+)?(J[+-]?\d+)?(D0?[123])$/
operationMatch(value) ==
    CodeEnd(value, CoordsEnd(value, 1), "D") = Len(value) + 1

\* /^G0?[123](X[+-]?\d+)?(Y[+-]?\d+)?(I[+-]?\d+)?(J[+-]?\d+)?(D0?[123])?$/
gCodeOperationMatch(value) ==
    /\ CodeEnd(value, 1, "G") # 0
    /\ LET c == CoordsEnd(value, CodeEnd(value, 1, "G"))
       IN  c = Len(value) + 1 \/ CodeEnd(value, c, "D") = Len(value) + 1

\* ------------------------------------------------------------------ parser
parseFormatSpec(content) ==
    LET rest   == SliceFrom(content, 2)
        xMatch == TwoDigitField(rest, "X")
        yMatch == TwoDigitField(rest, "Y")
    IN  FormatSpecification(
            IF Len(rest) >= 1 THEN Some(rest[1]) ELSE None,
            IF Len(rest) >= 2 THEN Some(rest[2]) ELSE None,
            Some(IF xMatch # None THEN parseInt10(Str1(xMatch[1][1])) ELSE Two),
            Some(IF xMatch # None THEN parseInt10(Str1(xMatch[1][2])) ELSE Six),
            Some(IF yMatch # None THEN parseInt10(Str1(yMatch[1][1])) ELSE Two),
            Some(IF yMatch # None THEN parseInt10(Str1(yMatch[1][2])) ELSE Six))

\* end (exclusive) of the greedy run [A-Za-z0-9_]* starting at i
NameRunEnd(s, i) ==
    CHOOSE j \in i..(Len(s) + 1) :
        /\ \A k \in i..(j - 1) : IsNameChar(s[k])
        /\ (j = Len(s) + 1 \/ ~IsNameChar(s[j]))

\* "." of a regular expression matches no line terminator
HasLineTerminator(s) == \E k \in 1..Len(s) : s[k] \in {"\n", "\r"}

\* /^ADD(\d+)([A-Za-z_][A-Za-z0-9_]*)(?:,(.*))?$/
parseApertureDefinition(content) ==
    LET dEnd  == IF Len(content) >= 3 THEN DigitRunEnd(content, 4) ELSE 0
        tEnd  == IF dEnd > 4 /\ dEnd <= Len(content) /\ IsNameStart(content[dEnd])
                 THEN NameRunEnd(content, dEnd + 1) ELSE 0
        tail  == IF tEnd # 0 THEN SliceFrom(content, tEnd - 1) ELSE <<>>
        match == /\ StartsWith(content, <<"A", "D", "D">>)
                 /\ tEnd # 0
                 /\ \/ tail = <<>>
                    \/ tail[1] = "," /\ ~HasLineTerminator(tail)
        paramsStr == IF tail = <<>> THEN <<>> ELSE Tail(tail)
        parts == Split(paramsStr, "X")
    IN  IF ~match
        THEN ApertureDefinition(Ten, <<"C">>, None)
        ELSE ApertureDefinition(
                parseInt10(SubSeq(content, 4, dEnd - 1)),
                SubSeq(content, dEnd, tEnd - 1),
                Some(IF paramsStr # <<>>
                     THEN [k \in 1..Len(parts) |-> parseFloat(parts[k])]
                     ELSE <<>>))

parseApertureMacro(content) ==
    LET firstStar    == IndexOf(content, "*")
        macroContent == SliceFrom(content, firstStar + 1)
    IN  IF firstStar = -1
        THEN ApertureMacro(SliceFrom(content, 2), <<>>)
        ELSE ApertureMacro(
                SubSeq(content, 3, firstStar),
                IF EndsWith(macroContent, <<"*">>)
                THEN SliceDropLast(macroContent) ELSE macroContent)

parseStepRepeat(content) ==
    LET rest   == SliceFrom(content, 2)
        xMatch == NatField(rest, "X")
        yMatch == NatField(rest, "Y")
        iMatch == RealField(rest, "I")
        jMatch == RealField(rest, "J")
    IN  IF rest = <<>>
        THEN StepRepeat(None, None, None, None)
        ELSE StepRepeat(
                Some(IF xMatch # None THEN parseInt10(xMatch[1]) ELSE One),
                Some(IF yMatch # None THEN parseInt10(yMatch[1]) ELSE One),
                Some(IF iMatch # None THEN parseFloat(iMatch[1]) ELSE Zero),
                Some(IF jMatch # None THEN parseFloat(jMatch[1]) ELSE Zero))

\* the raw text is rebuilt from the content, whose trailing star is stripped
unknownExtended_fromContent(value) ==
    UnknownCommand(<<"%">>
        \o (IF EndsWith(value, <<"*">>) THEN SliceDropLast(value) ELSE value)
        \o <<"%">>)

\* the last return of parseExtendedCommand: the token's text between "%"
unknownExtended(value) == UnknownCommand(<<"%">> \o value \o <<"%">>)

\* the name and the values of an attribute: rest.split(",")
AttributeName(content, prefix) == Split(SliceFrom(content, Len(prefix)), ",")[1]

\* empty values are dropped
AttributeValues_dropsEmpty(content, prefix) ==
    LET NonEmpty(v) == v # <<>>
    IN  SelectSeq(Tail(Split(SliceFrom(content, Len(prefix)), ",")), NonEmpty)

AttributeValues(content, prefix) == Tail(Split(SliceFrom(content, Len(prefix)), ","))

parseExtendedCommand(value) ==
    LET content == IF EndsWith(value, <<"*">>) THEN SliceDropLast(value) ELSE value
        rest    == SliceFrom(content, 2)
        aMatch  == RealField(content, "A")
        bMatch  == RealField(content, "B")
    IN  CASE StartsWith(content, <<"F", "S">>) -> parseFormatSpec(content)
          [] StartsWith(content, <<"M", "O">>) -> UnitMode(rest)
          [] StartsWith(content, <<"A", "D">>) -> parseApertureDefinition(content)
          [] StartsWith(content, <<"A", "M">>) -> parseApertureMacro(content)
          [] StartsWith(content, <<"L", "P">>) -> LoadPolarity(rest)
          [] StartsWith(content, <<"L", "M">>) -> LoadMirroring(rest)
          [] StartsWith(content, <<"L", "R">>) -> LoadRotation(parseFloat(rest))
          [] StartsWith(content, <<"L", "S">>) -> LoadScaling(parseFloat(rest))
          [] StartsWith(content, <<"S", "R">>) -> parseStepRepeat(content)
          [] StartsWith(content, <<"T", "F", ".">>) ->
                FileAttribute(AttributeName(content, <<"T", "F", ".">>),
                              Some(AttributeValues(content, <<"T", "F", ".">>)))
          [] StartsWith(content, <<"T", "A", ".">>) ->
                ApertureAttribute(AttributeName(content, <<"T", "A", ".">>),
                                  Some(AttributeValues(content, <<"T", "A", ".">>)))
          [] StartsWith(content, <<"T", "O", ".">>) ->
                ObjectAttribute(AttributeName(content, <<"T", "O", ".">>),
                                Some(AttributeValues(content, <<"T", "O", ".">>)))
          [] StartsWith(content, <<"T", "D">>) ->
                IF StartsWith(rest, <<".">>)
                THEN DeleteAttribute(Some(SliceFrom(rest, 1)))
                ELSE DeleteAttribute(None)
          [] StartsWith(content, <<"I", "P">>) -> SetImagePolarity(rest)
          [] StartsWith(content, <<"O", "F">>) ->
                SetOffset(Some(IF aMatch # None THEN parseFloat(aMatch[1]) ELSE Zero),
                          Some(IF bMatch # None THEN parseFloat(bMatch[1]) ELSE Zero))
          [] OTHER -> unknownExtended(value)

\* the optional number of a coordinate field
CoordField(s, letter) ==
    IF IntField(s, letter) # None THEN Some(parseInt10(IntField(s, letter)[1])) ELSE None

parseOperation(value) ==
    LET dMatch == DCodeField(value)
    IN  createOperation(<<"D", "0">> \o Str1(OrElse(dMatch, "1")),
                        CoordField(value, "X"), CoordField(value, "Y"),
                        CoordField(value, "I"), CoordField(value, "J"))

\* only called on a value that gCodeOperationMatch accepts
parseGCodeOperation(value) ==
    LET gEnd   == CodeEnd(value, 1, "G")
        mode   == <<"G", "0">> \o Str1(value[gEnd - 1])
        rest   == SliceFrom(value, gEnd - 1)
        dMatch == DCodeField(rest)
    IN  IF rest = <<>> THEN SetInterpolationMode(mode)
        ELSE IF dMatch # None
        THEN createOperation(<<"D", "0">> \o Str1(dMatch[1]),
                             CoordField(rest, "X"), CoordField(rest, "Y"),
                             CoordField(rest, "I"), CoordField(rest, "J"))
        ELSE SetInterpolationMode(mode)

\* value.replace(/^G0?4\s*/, "")
CommentText(value) ==
    LET g == IF StartsWith(value, <<"G", "0", "4">>) THEN 4
             ELSE IF StartsWith(value, <<"G", "4">>) THEN 3
             ELSE 0
    IN  IF g = 0 THEN value ELSE SliceFrom(value, SpaceRunEnd(value, g) - 1)

\* a Dnn selection is constructed without looking at the code
apertureSelection_unguarded(value) ==
    IF apertureMatch(value) # None
    THEN Some(SelectAperture(parseInt10(apertureMatch(value)[1])))
    ELSE None

\* the aperture-selection production: the node, or None when it falls through
apertureSelection(value) ==
    IF apertureMatch(value) # None /\ NumGe(parseInt10(apertureMatch(value)[1]), Ten)
    THEN Some(SelectAperture(parseInt10(apertureMatch(value)[1])))
    ELSE None

parseCommand(value) ==
    IF StartsWith(value, <<"G", "0", "1">>) \/ value = <<"G", "1">>
    THEN SetInterpolationMode(<<"G", "0", "1">>)
    ELSE IF StartsWith(value, <<"G", "0", "2">>) \/ value = <<"G", "2">>
    THEN SetInterpolationMode(<<"G", "0", "2">>)
    ELSE IF StartsWith(value, <<"G", "0", "3">>) \/ value = <<"G", "3">>
    THEN SetInterpolationMode(<<"G", "0", "3">>)
    ELSE IF StartsWith(value, <<"G", "7", "4">>)
    THEN SetInterpolationMode(<<"G", "7", "4">>)
    ELSE IF StartsWith(value, <<"G", "7", "5">>)
    THEN SetInterpolationMode(<<"G", "7", "5">>)
    ELSE IF StartsWith(value, <<"G", "0", "4">>) \/ StartsWith(value, <<"G", "4">>)
    THEN Comment(CommentText(value))
    ELSE IF value = <<"G", "3", "6">> THEN RegionStart
    ELSE IF value = <<"G", "3", "7">> THEN RegionEnd
    ELSE IF value \in {<<"M", "0", "2">>, <<"M", "0", "0">>, <<"M", "2">>, <<"M", "0">>}
    THEN EndOfFile
    ELSE IF apertureSelection(value) # None THEN apertureSelection(value)[1]
    ELSE IF operationMatch(value) THEN parseOperation(value)
    ELSE IF gCodeOperationMatch(value) THEN parseGCodeOperation(value)
    ELSE UnknownCommand(value \o <<"*">>)

\* an unrecognised command yields no node
parseToken_dropsUnknown(token) ==
    IF token.type = "EXTENDED_COMMAND" THEN parseExtendedCommand(token.value)
    ELSE IF token.type = "COMMAND"
    THEN IF parseCommand(token.value).type = "UnknownCommand" THEN NullNode
         ELSE parseCommand(token.value)
    ELSE NullNode

parseToken(token) ==
    IF token.type = "EXTENDED_COMMAND" THEN parseExtendedCommand(token.value)
    ELSE IF token.type = "COMMAND" THEN parseCommand(token.value)
    ELSE NullNode

\* the loop of Parser.parse over tokens from index k (1-based) on; a throwing
\* constructor ends it
RECURSIVE parseFrom(_, _, _)
RECURSIVE parseFromNode(_, _, _, _)
parseFrom(toks, k, acc) ==
    IF k > Len(toks) \/ toks[k].type = "EOF" THEN [threw |-> FALSE, nodes |-> acc]
    ELSE parseFromNode(toks, k, acc, parseToken(toks[k]))

\* the rest of the iteration once the token's node is there
parseFromNode(toks, k, acc, node) ==
    IF node = Thrown THEN [threw |-> TRUE, nodes |-> acc]
    ELSE parseFrom(toks, k + 1, IF node = NullNode THEN acc ELSE Append(acc, node))

\* parseGerber(source)
parseGerber(s) == parseFrom(tokenize(s), 1, <<>>)

\* ---------------------------------------------------------------- document
\* the argument is a string: typeof command === "string"
StringArg(str) == [kind |-> "string", str |-> str]

NodeArg(node) == [kind |-> "node", node |-> node]

\* given a string, the document becomes the nodes parsed from it
addCommand_replaces(cmds, command) ==
    IF command.kind = "string" THEN parseGerber(command.str).nodes
    ELSE Append(cmds, command.node)

\* GerberFile.addCommand(command)
addCommand(cmds, command) ==
    IF command.kind = "string" THEN cmds \o parseGerber(command.str).nodes
    ELSE Append(cmds, command.node)

\* GerberFile.addApertureDefinition(aperture)
addApertureDefinition(cmds, aperture) == Append(cmds, aperture)

\* GerberFile.addOperation(operation)
addOperation(cmds, operation) == Append(cmds, operation)

\* only the last node is tested
ensureEndOfFile_testsLast(cmds) ==
    IF cmds # <<>> /\ cmds[Len(cmds)].type = "EndOfFile" THEN cmds
    ELSE Append(cmds, EndOfFile)

\* GerberFile.ensureEndOfFile()
ensureEndOfFile(cmds) ==
    IF \E k \in 1..Len(cmds) : cmds[k].type = "EndOfFile" THEN cmds
    ELSE Append(cmds, EndOfFile)

\* with several nodes the first is returned
GerberNodeParse_first(parsed) ==
    IF Len(parsed) = 0 THEN Thrown ELSE parsed[1]

\* GerberNode.parse(source), from the nodes parseGerber(source) returned
GerberNodeParse(parsed) ==
    IF Len(parsed) = 0 THEN Thrown
    ELSE IF Len(parsed) > 1 THEN Thrown
    ELSE parsed[1]

\* ---------------------------------------------------------------- renderer
\* a RenderOptions object: every field is optional; colours are opaque texts
RenderOptions(scale, strokeColor, fillColor, backgroundColor, padding) ==
    [scale |-> scale, strokeColor |-> strokeColor, fillColor |-> fillColor,
     backgroundColor |-> backgroundColor, padding |-> padding]

\* {}, which is also what the constructor takes for options left out
NoOptions == RenderOptions(None, None, None, None, None)

\* the options the constructor keeps: a field left out has its default
OptionsOrDefaults(given) ==
    [scale           |-> OrElse(given.scale, One),
     strokeColor     |-> OrElse(given.strokeColor, "#000"),
     fillColor       |-> OrElse(given.fillColor, "#000"),
     backgroundColor |-> OrElse(given.backgroundColor, "none"),
     padding         |-> OrElse(given.padding, Tenth)]

\* the fields of a GerberToSvg instance after its constructor, options being
\* the optional argument; threw records that a call on the instance raised an
\* error
NewGerberToSvg(options) ==
    [state      |-> [x |-> Zero, y |-> Zero, aperture |-> None,
                     interpolation |-> "linear", regionMode |-> FALSE,
                     polarity |-> "dark", unit |-> <<"I", "N">>,
                     formatSpec |-> None],
     apertures  |-> <<>>,
     paths      |-> <<>>,
     flashes    |-> <<>>,
     regionPath |-> <<>>,
     regions    |-> <<>>,
     bounds     |-> [minX |-> PosInfinity, minY |-> PosInfinity,
                     maxX |-> NegInfinity, maxY |-> NegInfinity],
     options    |-> OptionsOrDefaults(OrElse(options, NoOptions)),
     threw      |-> FALSE]

\* apertures.get(code) ?? null; the map is kept as its entries in insertion order
ApertureGet(apertures, code) ==
    IF \E k \in 1..Len(apertures) : apertures[k].code = code
    THEN Some(apertures[CHOOSE k \in 1..Len(apertures) : apertures[k].code = code])
    ELSE None

\* apertures.set(code, ap)
ApertureSet(apertures, ap) ==
    IF \E k \in 1..Len(apertures) : apertures[k].code = ap.code
    THEN [k \in 1..Len(apertures) |->
            IF apertures[k].code = ap.code THEN ap ELSE apertures[k]]
    ELSE Append(apertures, ap)

\* what reading a property of null leaves in place of a number
TypeError == [nan |-> TRUE, inf |-> 0, neg |-> TRUE, man |-> <<>>, exp |-> 0]

\* The values that Math.pow(10, decimalDigits) can have in the calls of
\* convertCoordinate that processCommand(cmd) makes: the decimal digits are the
\* x ones of the format specification in force.  Without one the division is
\* by the literal 10000, and a node that is no operation, or has neither x nor
\* y, has no call made (the one value stands for none).
powValues(state, cmd) ==
    IF state.formatSpec = None THEN {TenThousand}
    ELSE IF ~IsOperation(cmd) THEN {TenThousand}
    ELSE IF cmd.x = None /\ cmd.y = None THEN {TenThousand}
    ELSE IF state.formatSpec[1].xDecimalDigits \in DOMAIN Pow10Kept
    THEN Pow10Kept[state.formatSpec[1].xDecimalDigits]
    ELSE Pow10Set(state.formatSpec[1].xDecimalDigits)

\* the format specification is read without the null test
convertCoordinate_unguarded(state, value, pow) ==
    IF state.formatSpec = None THEN TypeError ELSE NumDiv(value, pow)

\* the format specification is ignored: always four decimal digits
convertCoordinate_fixed4(state, value, pow) == NumDiv(value, TenThousand)

\* convertCoordinate(value), pow being the value Math.pow(10, decimalDigits)
\* has, one of powValues(state, cmd)
convertCoordinate(state, value, pow) ==
    IF state.formatSpec = None THEN NumDiv(value, TenThousand)
    ELSE NumDiv(value, pow)

\* the default width, whatever the aperture
getApertureWidth_default(state) == Hundredth

getApertureWidth(state) ==
    IF state.aperture = None THEN Hundredth
    ELSE IF Len(state.aperture[1].params) = 0 THEN Hundredth
    ELSE state.aperture[1].params[1]

updateBounds(bounds, x, y) ==
    [minX |-> NumMin(bounds.minX, x), minY |-> NumMin(bounds.minY, y),
     maxX |-> NumMax(bounds.maxX, x), maxY |-> NumMax(bounds.maxY, y)]

\* the first parameter stands for every parameter
ParamOr_first(params, k, default) == IF 0 < Len(params) THEN params[1] ELSE default

\* params[k] ?? default (k is 0-based)
ParamOr(params, k, default) == IF k < Len(params) THEN params[k + 1] ELSE default

\* createFlash(x, y): the shape (or None) and the bounds after it
createFlash(r, x, y) ==
    IF r.state.aperture = None THEN [flash |-> None, bounds |-> r.bounds]
    ELSE
    LET ap     == r.state.aperture[1]
        fill   == r.options.fillColor
        width  == ParamOr(ap.params, 0, Hundredth)
        height == ParamOr(ap.params, 1, width)
        rx     == NumSub(x, NumHalf(width))
        ry     == NumSub(y, NumHalf(height))
        rad    == NumHalf(width)
        box    == updateBounds(updateBounds(r.bounds, rx, ry),
                               NumAdd(rx, width), NumAdd(ry, height))
    IN  IF ap.template = <<"C">>
        THEN [flash  |-> Some([tag |-> "circle", cx |-> x, cy |-> y, r |-> rad,
                               fill |-> fill]),
              bounds |-> updateBounds(updateBounds(r.bounds, NumSub(x, rad), NumSub(y, rad)),
                                      NumAdd(x, rad), NumAdd(y, rad))]
        ELSE IF ap.template = <<"R">>
        THEN [flash  |-> Some([tag |-> "rect", x |-> rx, y |-> ry, width |-> width,
                               height |-> height, rx |-> None, fill |-> fill]),
              bounds |-> box]
        ELSE IF ap.template = <<"O">>
        THEN [flash  |-> Some([tag |-> "rect", x |-> rx, y |-> ry, width |-> width,
                               height |-> height,
                               rx |-> Some(NumHalf(NumMin(width, height))),
                               fill |-> fill]),
              bounds |-> box]
        ELSE [flash  |-> Some([tag |-> "circle", cx |-> x, cy |-> y, r |-> FiveThousandths,
                               fill |-> fill]),
              bounds |-> r.bounds]

\* the switch of handleOperation on the d-code: the renderer after the drawing,
\* before the current point moves
DrawOperation(r, op, newX, newY) ==
    IF op.dcode = D01
    THEN IF r.state.regionMode
         THEN [r EXCEPT !.regionPath =
                    (IF r.regionPath = <<>>
                     THEN <<[cmd |-> "M", x |-> r.state.x, y |-> r.state.y]>>
                     ELSE r.regionPath)
                        \o <<[cmd |-> "L", x |-> newX, y |-> newY]>>]
         ELSE IF r.state.aperture # None
         THEN [r EXCEPT !.paths = Append(r.paths,
                    [tag |-> "line", x1 |-> r.state.x, y1 |-> r.state.y,
                     x2 |-> newX, y2 |-> newY, stroke |-> r.options.strokeColor,
                     strokeWidth |-> getApertureWidth(r.state)])]
         ELSE r
    ELSE IF op.dcode = D02
    THEN IF r.state.regionMode /\ r.regionPath # <<>>
         THEN [r EXCEPT !.regionPath =
                    r.regionPath \o <<[cmd |-> "M", x |-> newX, y |-> newY]>>]
         ELSE r
    ELSE IF op.dcode = D03
    THEN IF r.state.aperture # None
         THEN LET f == createFlash(r, newX, newY)
              IN  [r EXCEPT !.flashes = IF f.flash # None
                                        THEN Append(r.flashes, f.flash[1])
                                        ELSE r.flashes,
                            !.bounds = f.bounds]
         ELSE r
    ELSE r

\* a flash uses the selection up
handleOperation_flashDeselects(r, op, pow) ==
    LET newX == IF op.x # None THEN convertCoordinate(r.state, op.x[1], pow) ELSE r.state.x
        newY == IF op.y # None THEN convertCoordinate(r.state, op.y[1], pow) ELSE r.state.y
        b    == [r EXCEPT !.bounds = updateBounds(r.bounds, newX, newY)]
        d    == DrawOperation(b, op, newX, newY)
    IN  IF newX = TypeError \/ newY = TypeError THEN [r EXCEPT !.threw = TRUE]
        ELSE IF op.dcode = D03
        THEN [d EXCEPT !.state.x = newX, !.state.y = newY, !.state.aperture = None]
        ELSE [d EXCEPT !.state.x = newX, !.state.y = newY]

\* a move (D02) leaves the current point where it was
handleOperation_moveKeepsPoint(r, op, pow) ==
    LET newX == IF op.x # None THEN convertCoordinate(r.state, op.x[1], pow) ELSE r.state.x
        newY == IF op.y # None THEN convertCoordinate(r.state, op.y[1], pow) ELSE r.state.y
        b    == [r EXCEPT !.bounds = updateBounds(r.bounds, newX, newY)]
        d    == DrawOperation(b, op, newX, newY)
    IN  IF newX = TypeError \/ newY = TypeError THEN [r EXCEPT !.threw = TRUE]
        ELSE IF op.dcode = D02 THEN d
        ELSE [d EXCEPT !.state.x = newX, !.state.y = newY]

handleOperation(r, op, pow) ==
    LET newX == IF op.x # None THEN convertCoordinate(r.state, op.x[1], pow) ELSE r.state.x
        newY == IF op.y # None THEN convertCoordinate(r.state, op.y[1], pow) ELSE r.state.y
        b    == [r EXCEPT !.bounds = updateBounds(r.bounds, newX, newY)]
        d    == DrawOperation(b, op, newX, newY)
    IN  IF newX = TypeError \/ newY = TypeError THEN [r EXCEPT !.threw = TRUE]
        ELSE [d EXCEPT !.state.x = newX, !.state.y = newY]

G01 == <<"G", "0", "1">>

G02 == <<"G", "0", "2">>

G03 == <<"G", "0", "3">>

\* the path is pushed whether it is empty or not
closeRegion_always(r) ==
    [r EXCEPT !.regions = Append(r.regions, r.regionPath \o <<[cmd |-> "Z"]>>),
              !.state.regionMode = FALSE,
              !.regionPath = <<>>]

\* the path is kept after it is pushed
closeRegion_keepsPath(r) ==
    [r EXCEPT !.regions = IF r.regionPath # <<>>
                          THEN Append(r.regions, r.regionPath \o <<[cmd |-> "Z"]>>)
                          ELSE r.regions,
              !.state.regionMode = FALSE]

\* the RegionEnd case of processCommand
closeRegion(r) ==
    [r EXCEPT !.regions = IF r.regionPath # <<>>
                          THEN Append(r.regions, r.regionPath \o <<[cmd |-> "Z"]>>)
                          ELSE r.regions,
              !.state.regionMode = FALSE,
              !.regionPath = <<>>]

\* processCommand(cmd), pow being the value Math.pow has in convertCoordinate
processCommand(r, cmd, pow) ==
    IF cmd.type = "FormatSpecification"
    THEN [r EXCEPT !.state.formatSpec = Some(cmd)]
    ELSE IF cmd.type = "UnitMode"
    THEN [r EXCEPT !.state.unit = cmd.unit]
    ELSE IF cmd.type = "ApertureDefinition"
    THEN [r EXCEPT !.apertures = ApertureSet(r.apertures,
                [code |-> cmd.code, template |-> cmd.template, params |-> cmd.params])]
    ELSE IF cmd.type = "SelectAperture"
    THEN [r EXCEPT !.state.aperture = ApertureGet(r.apertures, cmd.code)]
    ELSE IF cmd.type = "SetInterpolationMode"
    THEN IF cmd.mode = G01 THEN [r EXCEPT !.state.interpolation = "linear"]
         ELSE IF cmd.mode = G02 THEN [r EXCEPT !.state.interpolation = "cw"]
         ELSE IF cmd.mode = G03 THEN [r EXCEPT !.state.interpolation = "ccw"]
         ELSE r
    ELSE IF cmd.type = "LoadPolarity"
    THEN [r EXCEPT !.state.polarity = IF cmd.polarity = <<"D">> THEN "dark" ELSE "clear"]
    ELSE IF cmd.type = "RegionStart"
    THEN [r EXCEPT !.state.regionMode = TRUE, !.regionPath = <<>>]
    ELSE IF cmd.type = "RegionEnd"
    THEN closeRegion(r)
    ELSE IF IsOperation(cmd)
    THEN handleOperation(r, cmd, pow)
    ELSE r

\* gerber.commands after processCommand(gerber.commands[k]): the loop of
\* render() and processCommand read the array, the node and its fields; the
\* instance keeps the node of a format specification and the params array of
\* an aperture definition by reference, and assigns through neither
commandsAfter(gerber, k) == gerber

\* the instance of the call before is used again
instanceForCall_reused(previous, options) == previous

\* renderGerberToSvg: new GerberToSvg(options), whatever an earlier call left
instanceForCall(previous, options) == NewGerberToSvg(options)

\* the SVG text that render() assembles after the replay, by its parts
AssembleSvg(r) ==
    LET padding  == r.options.padding
        width    == NumAdd(NumSub(r.bounds.maxX, r.bounds.minX), NumMul(padding, Two))
        height   == NumAdd(NumSub(r.bounds.maxY, r.bounds.minY), NumMul(padding, Two))
        viewMinX == NumSub(r.bounds.minX, padding)
        viewMinY == NumSub(r.bounds.minY, padding)
    IN  [width      |-> NumMul(width, r.options.scale),
         height     |-> NumMul(height, r.options.scale),
         viewBox    |-> <<Zero, Zero, width, height>>,
         background |-> IF r.options.backgroundColor # "none"
                        THEN Some(r.options.backgroundColor) ELSE None,
         transform  |-> [flipBy |-> height, dx |-> NumNeg(viewMinX), dy |-> NumNeg(viewMinY)],
         regions    |-> [k \in 1..Len(r.regions) |->
                            [d |-> r.regions[k], fill |-> r.options.fillColor]],
         paths      |-> r.paths,
         flashes    |-> r.flashes]

\* ----------------------------------------------------------------- inputs
\* The source texts are the concatenations of at most MaxPieces of these
\* pieces: whole commands and extended blocks, terminated and not, of every
\* production family (one with a run of digits that reads as 1e21), and the
\* delimiters and white space on their own.
Pieces ==
    <<<<"%", "F", "S", "L", "A", "X", "2", "6", "Y", "2", "6", "*", "%">>,
      <<"%", "M", "O", "M", "M", "*", "%">>,
      <<"%", "M", "O", "M", "M">>,
      <<"%", "A", "D", "D", "1", "0", "C", ",", "0", ".", "5", "*", "%">>,
      <<"%", "A", "D", "D", "5", "R", ",", "1", ".", "0", "X", "0", ".", "5", "*", "%">>,
      <<"%", "A", "D", "D", "x", "y", "z", "*", "%">>,
      <<"%", "A", "M", "m", "*", "1", ",", "1", "*", "%">>,
      <<"%", "A", "M", "m", "*", "1", "*", "*", "*", "%">>,
      <<"%", "T", "D", ".", "*", "%">>,
      <<"%", "T", "D", "*", "%">>,
      <<"%", "T", "F", ".", "a", ",", "b", "*", "%">>,
      <<"%", "T", "F", ".", "a", "%">>,
      <<"%", "L", "P", "D", "*", "%">>,
      <<"%", "L", "R", "4", "5", "*", "%">>,
      <<"%", "S", "R", "X", "2", "Y", "3", "I", "1", ".", "5", "J", "2", "*", "%">>,
      <<"%", "O", "F", "A", "1", "B", "-", "2", "*", "%">>,
      <<"%", "Z", "Z", "*", "%">>,
      <<"%", "Z", "Z">>,
      <<"G", "0", "1", "*">>,
      <<"G", "1", "*">>,
      <<"G", "0", "1", "X", "1", "Y", "2", "D", "0", "1", "*">>,
      <<"G", "1", "X", "1", "Y", "-", "2", "D", "0", "1", "*">>,
      <<"G", "2", "X", "5", "*">>,
      <<"G", "7", "5", "*">>,
      <<"G", "0", "4", " ", "h", "i", "*">>,
      <<"G", "3", "6", "*">>,
      <<"G", "3", "7", "*">>,
      <<"M", "0", "2", "*">>,
      <<"M", "0", "2">>,
      <<"D", "1", "0", "*">>,
      <<"D", "1", "0">>,
      <<"D", "5", "*">>,
      <<"X", "1", "Y", "2", "D", "0", "1", "*">>,
      <<"Y", "3", "D", "3", "*">>,
      <<"X", "a", "D", "0", "1", "*">>,
      <<"X", "1", "0", "0", "0", "0", "0", "0", "0", "0", "0", "0", "0", "0", "0", "0",
        "0", "0", "0", "0", "0", "0", "0", "D", "0", "1", "*">>,
      <<"Q", "*">>,
      <<"*">>,
      <<" ">>,
      <<"\n">>,
      <<"%">>>>

RECURSIVE Concat(_)
Concat(parts) == IF parts = <<>> THEN <<>> ELSE Head(parts) \o Concat(Tail(parts))

PieceChoices == UNION {[1..n -> 1..Len(Pieces)] : n \in 0..MaxPieces}

Sources == {Concat([k \in 1..Len(c) |-> Pieces[c[k]]]) : c \in PieceChoices}

\* The documents handed to the renderer are the sequences of at most MaxCmds
\* of these nodes, as a caller can build them with the node constructors.
RenderNodes ==
    <<FormatSpecification(Some("L"), Some("A"), Some(Two), Some(One), Some(Two),
                          Some(NumInt(3))),
      ApertureDefinition(Ten, <<"C">>, Some(<<Num(5, 1)>>)),
      ApertureDefinition(Ten, <<"R">>, Some(<<One, Num(5, 1)>>)),
      SelectAperture(Ten),
      RegionStart,
      RegionEnd,
      createOperation(D01, Some(Ten), None, None, None),
      createOperation(D02, None, Some(NumInt(-20)), None, None),
      createOperation(D03, Some(NumInt(5)), Some(NumInt(5)), None, None),
      SetInterpolationMode(G02),
      ApertureDefinition(Ten, <<"C">>, None),
      FormatSpecification(Some("L"), Some("A"), Some(Two), Some(Two), Some(Two),
                          Some(Two))>>

CmdChoices == UNION {[1..n -> 1..Len(RenderNodes)] : n \in 0..MaxCmds}

\* ------------------------------------------------------------------ state
VARIABLES
    source,     \* the text handed to GerberFile.parse
    pos,        \* Tokenizer.pos
    tokens,     \* the tokens pushed so far
    ppos,       \* Parser.pos
    nodes,      \* the nodes Parser.parse has pushed so far
    pc,         \* where the run stands
    commands,   \* GerberFile.commands
    text,       \* the result of getString()
    reparsed,   \* the result of parseGerber on that text
    renderer,   \* the GerberToSvg instance of a render call
    idx,        \* how many commands the loop of render() has replayed
    rpc,        \* where the render call stands
    svg,        \* what render() returned
    prev,       \* GerberFile.commands before the last call on the document
    last        \* the last call: its name, its argument and what it returned

parseVars == <<source, pos, tokens, ppos, nodes, pc, text, reparsed>>

renderVars == <<renderer, idx, rpc, svg>>

fileVars == <<prev, last>>

vars == <<source, pos, tokens, ppos, nodes, pc, commands, text, reparsed,
          renderer, idx, rpc, svg, prev, last>>

\* no render call is under way
NoRender ==
    /\ renderer = NewGerberToSvg(None)
    /\ idx = 0
    /\ rpc = "idle"
    /\ svg = None

\* a call on a document: arg is the node, the string or the code handed in
\* (the options, for a render call), node the node returned, out the text
\* returned (by the render call before, for a second one), run the number of
\* calls of this kind in a row and base the nodes before the first of them
Call(op, threw, arg, node, out, run, base) ==
    [op |-> op, threw |-> threw, arg |-> arg, node |-> node, out |-> out,
     run |-> run, base |-> base]

\* no call was made on the document
NoCall ==
    /\ prev = <<>>
    /\ last = Call("none", FALSE, <<>>, None, <<>>, 0, <<>>)

Init ==
    /\ source \in Sources
    /\ pos = 0
    /\ tokens = <<>>
    /\ ppos = 0
    /\ nodes = <<>>
    /\ pc = "tokenize"
    /\ commands = <<>>
    /\ text = <<>>
    /\ reparsed = [threw |-> FALSE, nodes |-> <<>>]
    /\ NoRender
    /\ NoCall

\* one iteration of the loop of tokenize() that pushes a token
TokenizeToken ==
    /\ pc = "tokenize"
    /\ ~isAtEnd(source, pos)
    /\ ~isAtEnd(source, skipWhitespaceAndNewlines(source, pos))
    /\ LET r == readToken(source, skipWhitespaceAndNewlines(source, pos))
       IN  /\ tokens' = Append(tokens, r.token)
           /\ pos' = r.pos
    /\ UNCHANGED <<source, ppos, nodes, pc, commands, text, reparsed>>
    /\ UNCHANGED renderVars
    /\ UNCHANGED fileVars

\* the loop ends (its condition fails, or the break after the white space)
\* and the sentinel is pushed; the Parser's constructor returns
TokenizeEnd ==
    /\ pc = "tokenize"
    /\ isAtEnd(source, pos) \/ isAtEnd(source, skipWhitespaceAndNewlines(source, pos))
    /\ pos' = (IF isAtEnd(source, pos) THEN pos
               ELSE skipWhitespaceAndNewlines(source, pos))
    /\ tokens' = Append(tokens, EofToken(source, pos'))
    /\ pc' = "parse"
    /\ UNCHANGED <<source, ppos, nodes, commands, text, reparsed>>
    /\ UNCHANGED renderVars
    /\ UNCHANGED fileVars

\* Parser.peek()
peekToken(toks, p) ==
    IF p < Len(toks) THEN toks[p + 1]
    ELSE [type |-> "EOF", value |-> <<>>, line |-> 0, column |-> 0]

\* the node of the token is pushed, or the constructor's throw ends the loop
ParseTokenNode(node) ==
    /\ ppos' = ppos + 1
    /\ nodes' = (IF node = Thrown \/ node = NullNode THEN nodes ELSE Append(nodes, node))
    /\ pc' = (IF node = Thrown THEN "threw" ELSE "parse")

\* one iteration of the loop of Parser.parse
ParseToken ==
    /\ pc = "parse"
    /\ peekToken(tokens, ppos).type # "EOF"
    /\ ParseTokenNode(parseToken(peekToken(tokens, ppos)))
    /\ UNCHANGED <<source, pos, tokens, commands, text, reparsed>>
    /\ UNCHANGED renderVars
    /\ UNCHANGED fileVars

\* Parser.parse returns and GerberFile.parse builds the document
ParseEnd ==
    /\ pc = "parse"
    /\ peekToken(tokens, ppos).type = "EOF"
    /\ commands' = nodes
    /\ pc' = "parsed"
    /\ UNCHANGED <<source, pos, tokens, ppos, nodes, text, reparsed>>
    /\ UNCHANGED renderVars
    /\ UNCHANGED fileVars

\* GerberFile.getString()
GetString ==
    /\ pc = "parsed"
    /\ text' = getString(commands)
    /\ pc' = "serialized"
    /\ UNCHANGED <<source, pos, tokens, ppos, nodes, commands, reparsed>>
    /\ UNCHANGED renderVars
    /\ UNCHANGED fileVars

\* parseGerber on the serialized text
Reparse ==
    /\ pc = "serialized"
    /\ reparsed' = parseGerber(text)
    /\ pc' = "done"
    /\ UNCHANGED <<source, pos, tokens, ppos, nodes, commands, text>>
    /\ UNCHANGED renderVars
    /\ UNCHANGED fileVars

\* GerberNode.parse(source): parseGerber has returned its nodes, the count is
\* tested and the single node returned
NodeParse ==
    /\ pc = "parsed"
    /\ LET n == GerberNodeParse(commands)
       IN  last' = Call("GerberNode.parse", n = Thrown, source,
                        IF n = Thrown THEN None ELSE Some(n), <<>>, 0, <<>>)
    /\ pc' = "single"
    /\ UNCHANGED <<source, pos, tokens, ppos, nodes, commands, text, reparsed, prev>>
    /\ UNCHANGED renderVars

Next ==
    \/ TokenizeToken
    \/ TokenizeEnd
    \/ ParseToken
    \/ ParseEnd
    \/ GetString
    \/ Reparse
    \/ NodeParse

Spec == Init /\ [][Next]_vars

\* the same run on an attribute block %TF.<rest>*%, %TA.<rest>*% or %TO.<rest>*%
RestChars == {"a", "b", ",", "*"}

AttributeSources ==
    {<<"%", "T", p, ".">> \o rest \o <<"*", "%">> :
        p \in {"F", "A", "O"},
        rest \in UNION {[1..n -> RestChars] : n \in 0..MaxRest}}

AttributeInit ==
    /\ source \in AttributeSources
    /\ pos = 0
    /\ tokens = <<>>
    /\ ppos = 0
    /\ nodes = <<>>
    /\ pc = "tokenize"
    /\ commands = <<>>
    /\ text = <<>>
    /\ reparsed = [threw |-> FALSE, nodes |-> <<>>]
    /\ NoRender
    /\ NoCall

AttributeSpec == AttributeInit /\ [][Next]_vars

\* tokenize(source) alone; the loop runs on until it returns
TokenizeNext ==
    \/ TokenizeToken
    \/ TokenizeEnd

TokenizeSpec == Init /\ [][TokenizeNext]_vars /\ WF_vars(TokenizeNext)

\* ------------------------------------------------------------ render call
\* renderGerberToSvg(gerber) on a document built from nodes
RenderInit ==
    /\ \E c \in CmdChoices : commands = [k \in 1..Len(c) |-> RenderNodes[c[k]]]
    /\ source = <<>>
    /\ pos = 0
    /\ tokens = <<>>
    /\ ppos = 0
    /\ nodes = <<>>
    /\ pc = "built"
    /\ text = <<>>
    /\ reparsed = [threw |-> FALSE, nodes |-> <<>>]
    /\ renderer = NewGerberToSvg(None)
    /\ idx = 0
    /\ rpc = "replay"
    /\ svg = None
    /\ NoCall

\* one iteration of the loop of render(): processCommand on the next node.
\* Math.pow has one of the values it can have; the replay of another node may
\* take another of them, so that every run of every implementation is a
\* behaviour (and, where two nodes are converted by the same digits whose power
\* of ten is no double, some behaviours are the run of none).
Replay ==
    /\ rpc = "replay"
    /\ idx < Len(commands)
    /\ \E pow \in powValues(renderer.state, commands[idx + 1]) :
            renderer' = processCommand(renderer, commands[idx + 1], pow)
    /\ commands' = commandsAfter(commands, idx + 1)
    /\ idx' = idx + 1
    /\ rpc' = (IF renderer'.threw THEN "threw" ELSE "replay")
    /\ UNCHANGED svg
    /\ UNCHANGED parseVars
    /\ UNCHANGED fileVars

\* the loop is over: render() assembles and returns the SVG
Assemble ==
    /\ rpc = "replay"
    /\ idx = Len(commands)
    /\ svg' = Some(AssembleSvg(renderer))
    /\ rpc' = "done"
    /\ UNCHANGED <<commands, renderer, idx>>
    /\ UNCHANGED parseVars
    /\ UNCHANGED fileVars

RenderNext ==
    \/ Replay
    \/ Assemble

RenderSpec == RenderInit /\ [][RenderNext]_vars

\* --------------------------------------------- two render calls on a document
\* nodes of documents of aperture definitions, selections and flashes
ShapeNodes ==
    <<ApertureDefinition(Ten, <<"C">>, Some(<<Num(5, 1)>>)),
      ApertureDefinition(Ten, <<"R">>, Some(<<One, Num(5, 1)>>)),
      ApertureDefinition(Ten, <<"R">>, Some(<<Two>>)),
      ApertureDefinition(Ten, <<"O">>, Some(<<One, Num(5, 1)>>)),
      ApertureDefinition(Ten, <<"P">>, Some(<<One>>)),
      ApertureDefinition(NumInt(11), <<"C">>, None),
      SelectAperture(Ten),
      SelectAperture(NumInt(11)),
      createOperation(D03, Some(NumInt(5)), Some(NumInt(-5)), None, None)>>

ShapeChoices == UNION {[1..n -> 1..Len(ShapeNodes)] : n \in 0..MaxCmds}

\* renderGerberToSvg(gerber), first call; prev keeps the document handed in
ShapeInit ==
    /\ \E c \in ShapeChoices : commands = [k \in 1..Len(c) |-> ShapeNodes[c[k]]]
    /\ source = <<>>
    /\ pos = 0
    /\ tokens = <<>>
    /\ ppos = 0
    /\ nodes = <<>>
    /\ pc = "built"
    /\ text = <<>>
    /\ reparsed = [threw |-> FALSE, nodes |-> <<>>]
    /\ renderer = NewGerberToSvg(None)
    /\ idx = 0
    /\ rpc = "replay"
    /\ svg = None
    /\ prev = commands
    /\ last = Call("renderGerberToSvg", FALSE, None, None, <<>>, 1, <<>>)

\* renderGerberToSvg(gerber, options) again, with the document as the first
\* call left it and the same options; last keeps what the first call returned
RenderAgain ==
    /\ rpc = "done"
    /\ last.run = 1
    /\ last' = Call("renderGerberToSvg", FALSE, last.arg, None, svg[1], 2, <<>>)
    /\ renderer' = instanceForCall(renderer, last.arg)
    /\ idx' = 0
    /\ rpc' = "replay"
    /\ svg' = None
    /\ UNCHANGED <<commands, prev>>
    /\ UNCHANGED parseVars

RenderTwiceNext ==
    \/ Replay
    \/ Assemble
    \/ RenderAgain

RenderTwiceSpec == ShapeInit /\ [][RenderTwiceNext]_vars

\* ------------------------------------ two render calls, options and all modes
\* a document whose nodes set every field of the graphics state and fill
\* every accumulator, and leave a region open
PureDocument ==
    <<FormatSpecification(Some("L"), Some("A"), Some(Two), Some(Two), Some(Two),
                          Some(Two)),
      UnitMode(<<"M", "M">>),
      ApertureDefinition(Ten, <<"C">>, Some(<<Num(5, 1)>>)),
      SelectAperture(Ten),
      SetInterpolationMode(G02),
      LoadPolarity(<<"C">>),
      createOperation(D02, Some(NumInt(100)), Some(NumInt(-100)), None, None),
      createOperation(D01, Some(NumInt(300)), None, None, None),
      createOperation(D03, Some(NumInt(5)), Some(NumInt(5)), None, None),
      RegionStart,
      createOperation(D01, Some(Ten), Some(NumInt(-20)), None, None),
      RegionEnd,
      RegionStart,
      createOperation(D01, Some(NumInt(3)), Some(Four), None, None)>>

\* the positions left out of the document: at most MaxLeftOut of them
LeftOutChoices ==
    {out \in SUBSET (1..Len(PureDocument)) : Cardinality(out) <= MaxLeftOut}

RECURSIVE Without(_, _, _)
\* the nodes of doc from the k-th on whose position is not in out
Without(doc, out, k) ==
    IF k > Len(doc) THEN <<>>
    ELSE (IF k \in out THEN <<>> ELSE <<doc[k]>>) \o Without(doc, out, k + 1)

\* The options handed to renderGerberToSvg: none, {}, the four fields of the
\* repository's rendering tests, all five fields, and a padding of 0 alone.
OptionChoices ==
    {None,
     Some(NoOptions),
     Some(RenderOptions(Some(NumInt(100)), Some("#00aa00"), Some("#00aa00"),
                        Some("#1a1a1a"), None)),
     Some(RenderOptions(Some(One), Some("#c87533"), Some("#b87333"), Some("none"),
                        Some(Num(5, 1)))),
     Some(RenderOptions(None, None, None, None, Some(Zero)))}

\* renderGerberToSvg(gerber, options), first call; prev keeps the document
\* handed in and last the options
PureInit ==
    /\ \E out \in LeftOutChoices : commands = Without(PureDocument, out, 1)
    /\ source = <<>>
    /\ pos = 0
    /\ tokens = <<>>
    /\ ppos = 0
    /\ nodes = <<>>
    /\ pc = "built"
    /\ text = <<>>
    /\ reparsed = [threw |-> FALSE, nodes |-> <<>>]
    /\ \E options \in OptionChoices :
            /\ renderer = NewGerberToSvg(options)
            /\ last = Call("renderGerberToSvg", FALSE, options, None, <<>>, 1, <<>>)
    /\ idx = 0
    /\ rpc = "replay"
    /\ svg = None
    /\ prev = commands

RenderPureSpec == PureInit /\ [][RenderTwiceNext]_vars

\* --------------------------------------------- documents of every node kind
G74 == <<"G", "7", "4">>

G75 == <<"G", "7", "5">>

\* one node of every kind, with the modes G74 and G75, and formats of 23 and
\* of 2.5 decimal digits, whose powers of ten are no doubles; the attribute
\* and the offset are built with an argument left out
ModalNodes ==
    <<FormatSpecification(Some("L"), Some("A"), Some(Two), Some(One), Some(Two),
                          Some(NumInt(3))),
      UnitMode(<<"M", "M">>),
      ApertureDefinition(Ten, <<"C">>, Some(<<Num(5, 1)>>)),
      SelectAperture(Ten),
      SetInterpolationMode(G02),
      LoadPolarity(<<"C">>),
      RegionStart,
      createOperation(D01, Some(Ten), None, None, None),
      RegionEnd,
      createOperation(D02, None, Some(NumInt(-20)), None, None),
      createOperation(D03, Some(NumInt(5)), Some(NumInt(5)), None, None),
      SetInterpolationMode(G74),
      SetInterpolationMode(G75),
      Comment(<<"h", "i">>),
      FileAttribute(<<"A">>, Some(<<<<"b">>>>)),
      ApertureAttribute(<<"A">>, None),
      ObjectAttribute(<<"A">>, Some(<<>>)),
      DeleteAttribute(None),
      ApertureMacro(<<"M">>, <<"1">>),
      LoadMirroring(<<"X">>),
      LoadRotation(NumInt(90)),
      LoadScaling(Two),
      StepRepeat(Some(Two), Some(Two), None, None),
      EndOfFile,
      UnknownCommand(<<"M", "0", "0">>),
      SetImagePolarity(<<"N", "E", "G">>),
      SetOffset(Some(One), None),
      FormatSpecification(Some("L"), Some("A"), Some(Two), Some(NumInt(23)), Some(Two),
                          Some(NumInt(23))),
      FormatSpecification(Some("L"), Some("A"), Some(Two), Some(Num(25, 1)), Some(Two),
                          Some(Num(25, 1)))>>

\* the document starts with no node, with the nodes that set every mode, or
\* with these and an open region holding a line
ModalHeads == <<0, 6, 8>>

ModalChoices ==
    UNION {[1..n -> 1..Len(ModalNodes)] : n \in 0..MaxModalCmds}

\* renderGerberToSvg(gerber) on a head followed by nodes of every kind
ModalInit ==
    /\ \E h \in 1..Len(ModalHeads) : \E c \in ModalChoices :
            commands = SubSeq(ModalNodes, 1, ModalHeads[h])
                            \o [k \in 1..Len(c) |-> ModalNodes[c[k]]]
    /\ source = <<>>
    /\ pos = 0
    /\ tokens = <<>>
    /\ ppos = 0
    /\ nodes = <<>>
    /\ pc = "built"
    /\ text = <<>>
    /\ reparsed = [threw |-> FALSE, nodes |-> <<>>]
    /\ renderer = NewGerberToSvg(None)
    /\ idx = 0
    /\ rpc = "replay"
    /\ svg = None
    /\ NoCall

ModalSpec == ModalInit /\ [][RenderNext]_vars

\* ------------------------------------------------------- calls on a document
\* nodes handed to addCommand
FileNodes ==
    <<EndOfFile,
      Comment(<<"h", "i">>),
      SetInterpolationMode(G01)>>

\* strings handed to addCommand: none, white space, one node, two nodes, an
\* unrecognised command
FileStrings ==
    <<<<>>,
      <<" ", "\n">>,
      <<"M", "0", "2", "*">>,
      <<"G", "3", "6", "*", "\n", "G", "3", "7", "*">>,
      <<"D", "5", "*">>>>

\* nodes handed to addApertureDefinition
FileApertures ==
    <<ApertureDefinition(Ten, <<"C">>, Some(<<Num(5, 1)>>))>>

\* nodes handed to addOperation
FileOperations ==
    <<createOperation(D02, Some(Zero), Some(Zero), None, None),
      createOperation(D03, None, None, None, None)>>

\* codes handed to the SelectAperture constructor
SelectCodes == {NumInt(-1), Zero, NumInt(9), Ten, NumInt(11), NumInt(120)}

\* new GerberFile()
FileInit ==
    /\ commands = <<>>
    /\ source = <<>>
    /\ pos = 0
    /\ tokens = <<>>
    /\ ppos = 0
    /\ nodes = <<>>
    /\ pc = "file"
    /\ text = <<>>
    /\ reparsed = [threw |-> FALSE, nodes |-> <<>>]
    /\ NoRender
    /\ NoCall

\* addCommand(node)
AddCommandNode ==
    /\ pc = "file"
    /\ Len(commands) < MaxDocLen
    /\ \E n \in 1..Len(FileNodes) :
        /\ commands' = addCommand(commands, NodeArg(FileNodes[n]))
        /\ last' = Call("addCommand", FALSE, <<FileNodes[n]>>, None, <<>>, 0, <<>>)
    /\ prev' = commands
    /\ UNCHANGED parseVars
    /\ UNCHANGED renderVars

\* addCommand(string)
AddCommandString ==
    /\ pc = "file"
    /\ \E n \in 1..Len(FileStrings) :
        /\ Len(addCommand(commands, StringArg(FileStrings[n]))) <= MaxDocLen
        /\ commands' = addCommand(commands, StringArg(FileStrings[n]))
        /\ last' = Call("addCommand(string)", FALSE, FileStrings[n], None, <<>>, 0, <<>>)
    /\ prev' = commands
    /\ UNCHANGED parseVars
    /\ UNCHANGED renderVars

\* addApertureDefinition(aperture)
AddApertureDefinition ==
    /\ pc = "file"
    /\ Len(commands) < MaxDocLen
    /\ \E n \in 1..Len(FileApertures) :
        /\ commands' = addApertureDefinition(commands, FileApertures[n])
        /\ last' = Call("addApertureDefinition", FALSE, <<FileApertures[n]>>, None,
                        <<>>, 0, <<>>)
    /\ prev' = commands
    /\ UNCHANGED parseVars
    /\ UNCHANGED renderVars

\* addOperation(operation)
AddOperation ==
    /\ pc = "file"
    /\ Len(commands) < MaxDocLen
    /\ \E n \in 1..Len(FileOperations) :
        /\ commands' = addOperation(commands, FileOperations[n])
        /\ last' = Call("addOperation", FALSE, <<FileOperations[n]>>, None, <<>>, 0, <<>>)
    /\ prev' = commands
    /\ UNCHANGED parseVars
    /\ UNCHANGED renderVars

\* ensureEndOfFile()
EnsureEndOfFile ==
    /\ pc = "file"
    /\ Len(ensureEndOfFile(commands)) <= MaxDocLen
    /\ last.op = "ensureEndOfFile" => last.run < MaxEnsureCalls
    /\ commands' = ensureEndOfFile(commands)
    /\ last' = (IF last.op = "ensureEndOfFile"
                THEN Call("ensureEndOfFile", FALSE, <<>>, None, <<>>,
                          last.run + 1, last.base)
                ELSE Call("ensureEndOfFile", FALSE, <<>>, None, <<>>, 1, commands))
    /\ prev' = commands
    /\ UNCHANGED parseVars
    /\ UNCHANGED renderVars

\* getString() on the document
FileGetString ==
    /\ pc = "file"
    /\ last.op # "getString"
    /\ last' = Call("getString", FALSE, <<>>, None, getString(commands), 0, <<>>)
    /\ prev' = commands
    /\ UNCHANGED commands
    /\ UNCHANGED parseVars
    /\ UNCHANGED renderVars

\* new SelectAperture(code), and getString() of the node when there is one
NewSelectAperture ==
    /\ pc = "file"
    /\ \E code \in SelectCodes :
        LET n == SelectAperture(code)
        IN  last' = (IF n = Thrown
                     THEN Call("SelectAperture", TRUE, <<code>>, None, <<>>, 0, <<>>)
                     ELSE Call("SelectAperture", FALSE, <<code>>, Some(n),
                               NodeGetString(n), 0, <<>>))
    /\ prev' = commands
    /\ UNCHANGED commands
    /\ UNCHANGED parseVars
    /\ UNCHANGED renderVars

FileNext ==
    \/ AddCommandNode
    \/ AddCommandString
    \/ AddApertureDefinition
    \/ AddOperation
    \/ EnsureEndOfFile
    \/ FileGetString
    \/ NewSelectAperture

FileSpec == FileInit /\ [][FileNext]_vars

\* ------------------------------------------------- the text behind a token
RECURSIVE tokenSpansFrom(_, _, _)
\* for each token of tokenize(s) but the sentinel: where its text starts
\* (after the skipped white space) and where the tokenizer stopped reading it
tokenSpansFrom(s, p, acc) ==
    IF isAtEnd(s, p) \/ isAtEnd(s, skipWhitespaceAndNewlines(s, p)) THEN acc
    ELSE LET start == skipWhitespaceAndNewlines(s, p)
             stop  == readToken(s, start).pos
         IN  tokenSpansFrom(s, stop, Append(acc, [start |-> start, stop |-> stop]))

TokenSpans(s) == tokenSpansFrom(s, 0, <<>>)

\* the k-th token's text as it stands in the source, delimiters included
OriginalText(s, k) == SubSeq(s, TokenSpans(s)[k].start + 1, TokenSpans(s)[k].stop)

IsExtendedAt(s, k) == s[TokenSpans(s)[k].start + 1] = "%"

\* the k-th token is closed by its delimiter: the second "%" of an extended
\* block, the "*" of a command
Terminated(s, k) ==
    LET sp == TokenSpans(s)[k]
    IN  IF IsExtendedAt(s, k)
        THEN sp.stop >= sp.start + 2 /\ s[sp.stop] = "%"
        ELSE s[sp.stop] = "*"

\* the characters accumulated for the k-th token when the input ended inside
\* it: everything after the opening "%" of a block, everything of a command
Accumulated(s, k) ==
    IF IsExtendedAt(s, k)
    THEN SubSeq(s, TokenSpans(s)[k].start + 2, Len(s))
    ELSE SubSeq(s, TokenSpans(s)[k].start + 1, Len(s))

\* the tokens that Parser.parse has consumed so far
Parsed == IF pc = "tokenize" THEN 0 ELSE ppos

AllRecognised(cmds) == \A k \in 1..Len(cmds) : cmds[k].type # "UnknownCommand"

\* ------------------------------------------------------------------ claims

\* C1: for a source whose tokens all match recognised productions,
\* parseGerber(GerberFile.parse(S).getString()) equals parseGerber(S) node
\* by node: same length, same kinds in the same order, same field values.
RoundTripIdempotent ==
    (pc = "done" /\ AllRecognised(commands))
        => reparsed = [threw |-> FALSE, nodes |-> commands]

\* the productions of the parser, read off the grammar
ExtendedPrefixes ==
    {<<"F", "S">>, <<"M", "O">>, <<"A", "D">>, <<"A", "M">>, <<"L", "P">>,
     <<"L", "M">>, <<"L", "R">>, <<"L", "S">>, <<"S", "R">>, <<"T", "F", ".">>,
     <<"T", "A", ".">>, <<"T", "O", ".">>, <<"T", "D">>, <<"I", "P">>, <<"O", "F">>}

CommandPrefixes ==
    {<<"G", "0", "1">>, <<"G", "0", "2">>, <<"G", "0", "3">>, <<"G", "7", "4">>,
     <<"G", "7", "5">>, <<"G", "0", "4">>, <<"G", "4">>}

CommandWords ==
    {<<"G", "1">>, <<"G", "2">>, <<"G", "3">>, <<"G", "3", "6">>, <<"G", "3", "7">>,
     <<"M", "0", "2">>, <<"M", "0", "0">>, <<"M", "2">>, <<"M", "0">>}

Recognised(token) ==
    IF token.type = "EXTENDED_COMMAND"
    THEN \E p \in ExtendedPrefixes :
            StartsWith(IF EndsWith(token.value, <<"*">>)
                       THEN SliceDropLast(token.value) ELSE token.value, p)
    ELSE \/ \E p \in CommandPrefixes : StartsWith(token.value, p)
         \/ token.value \in CommandWords
         \/ (apertureMatch(token.value) # None
                /\ NumGe(parseInt10(apertureMatch(token.value)[1]), Ten))
         \/ operationMatch(token.value)
         \/ gCodeOperationMatch(token.value)

Delimited(token) ==
    IF token.type = "EXTENDED_COMMAND" THEN <<"%">> \o token.value \o <<"%">>
    ELSE token.value \o <<"*">>

\* C2: parseGerber raises no error on any input, every token that matches no
\* recognised production becomes an UnknownCommand, and no SelectAperture is
\* constructed with a code below 10.
ParserIsTotal ==
    /\ pc # "threw"
    /\ ~reparsed.threw
    /\ Parsed <= Len(nodes)
    /\ \A k \in 1..Len(nodes) :
        /\ nodes[k] # Thrown
        /\ nodes[k] # NullNode
        /\ nodes[k].type = "SelectAperture" => NumGe(nodes[k].code, Ten)
    /\ \A k \in 1..Parsed :
        ~Recognised(tokens[k]) => nodes[k] = UnknownCommand(Delimited(tokens[k]))

\* a D-code selection below 10 went through the parser and came out as an
\* UnknownCommand
ParserIsTotalWitness ==
    /\ pc = "done"
    /\ \E k \in 1..Len(commands) :
        /\ tokens[k].value = <<"D", "5">>
        /\ commands[k] = UnknownCommand(<<"D", "5", "*">>)

\* C3: the node list has exactly one node per token before the sentinel, and
\* the i-th node is the node produced from the i-th token.
OrderPreserved ==
    /\ pc = "parse" => Len(nodes) = ppos
    /\ pc \in {"parsed", "serialized", "done"} => Len(commands) = Len(tokens) - 1
    /\ pc = "parsed" =>
        LET toks == tokenize(source)
        IN  /\ Len(commands) = Len(toks) - 1
            /\ \A k \in 1..Len(commands) : commands[k] = parseToken(toks[k])

\* two tokens, the first unrecognised and the second a unit mode, gave an
\* UnknownCommand followed by a UnitMode
OrderPreservedWitness ==
    /\ pc = "parsed"
    /\ Len(tokens) = 3
    /\ Len(commands) = 2
    /\ commands[1].type = "UnknownCommand"
    /\ commands[2].type = "UnitMode"

\* G0?[123], the optional coordinate fields and a terminal D-code
GCodeWithDCode(value) ==
    /\ CodeEnd(value, 1, "G") # 0
    /\ CodeEnd(value, CoordsEnd(value, CodeEnd(value, 1, "G")), "D") = Len(value) + 1

\* C6: a command made of a leading G01/G02/G03 (or G1/G2/G3), optional X/Y/I/J
\* fields and a terminal D01/D02/D03 is parsed into an Operation node carrying
\* those fields and that d-code.
GCodeOperationParsed ==
    \A k \in 1..Parsed :
        (tokens[k].type = "COMMAND" /\ GCodeWithDCode(tokens[k].value)) =>
            /\ k <= Len(nodes)
            /\ nodes[k] = parseOperation(
                    SliceFrom(tokens[k].value, CodeEnd(tokens[k].value, 1, "G") - 1))

\* C8: when the input ends inside an unterminated command or extended block,
\* the token's value is exactly the characters accumulated since its start.
UnterminatedTokenKeepsEverything ==
    \A k \in 1..Len(tokens) :
        (tokens[k].type # "EOF" /\ ~Terminated(source, k)) =>
            tokens[k].value = Accumulated(source, k)

\* C9: the token of an unterminated block or command at the end of the input
\* becomes an UnknownCommand, the last node of the result.
UnterminatedBecomesUnknown ==
    (pc \in {"parsed", "serialized", "done"} /\ Len(commands) > 0
        /\ Len(commands) = Len(TokenSpans(source))
        /\ ~Terminated(source, Len(commands)))
        => commands[Len(commands)].type = "UnknownCommand"

\* C10: for a terminated block %T% or command T* that matches no production,
\* the UnknownCommand's getString() is the original text with its delimiters,
\* and parsing that text again gives an UnknownCommand with the same raw text.
UnknownCommandVerbatim ==
    pc = "parsed" =>
        \A k \in 1..Len(commands) :
            (commands[k].type = "UnknownCommand" /\ Terminated(source, k)) =>
                /\ NodeGetString(commands[k]) = OriginalText(source, k)
                /\ parseGerber(NodeGetString(commands[k]))
                        = [threw |-> FALSE, nodes |-> <<commands[k]>>]

\* an unknown extended block with an inner star and an unknown command, both
\* terminated, were parsed
UnknownCommandVerbatimWitness ==
    /\ pc = "parsed"
    /\ Len(commands) = 2
    /\ Terminated(source, 1) /\ Terminated(source, 2)
    /\ commands[1] = UnknownCommand(<<"%", "Z", "Z", "*", "%">>)
    /\ commands[2] = UnknownCommand(<<"Q", "*">>)

\* ------------------------------------------------------ the render replay
\* the decimal digits of the format in force before the k-th node
DigitsBefore(k) ==
    IF \E m \in 1..(k - 1) : commands[m].type = "FormatSpecification"
    THEN commands[CHOOSE m \in 1..(k - 1) :
            /\ commands[m].type = "FormatSpecification"
            /\ \A n \in (m + 1)..(k - 1) : commands[n].type # "FormatSpecification"
         ].xDecimalDigits
    ELSE Four

\* the coordinates v and the decimal digits d of the nodes handed to the
\* renderer
CoordinatesOf(ns) ==
    {ns[k].x[1] : k \in {m \in 1..Len(ns) : IsOperation(ns[m]) /\ ns[m].x # None}}
    \cup {ns[k].y[1] : k \in {m \in 1..Len(ns) : IsOperation(ns[m]) /\ ns[m].y # None}}

Coordinates == CoordinatesOf(RenderNodes) \cup CoordinatesOf(ShapeNodes)

DecimalDigits ==
    {Four} \cup {RenderNodes[k].xDecimalDigits : k \in {m \in 1..Len(RenderNodes) :
            RenderNodes[m].type = "FormatSpecification"}}

\* the values that v / 10^d can have, by the values of Math.pow(10, d)
Converted ==
    [v \in Coordinates, d \in DecimalDigits |-> {NumDiv(v, p) : p \in Pow10Set(d)}]

\* v / 10^d where it has one value: 10^d is a double for the decimal digits of
\* these nodes
Quotient == [v \in Coordinates, d \in DecimalDigits |-> CHOOSE q \in Converted[v, d] : TRUE]

\* the point drawn by the last Operation among the first k nodes
RECURSIVE DrawnX(_)
DrawnX(k) ==
    IF k = 0 THEN Zero
    ELSE IF IsOperation(commands[k]) /\ commands[k].x # None
    THEN Quotient[commands[k].x[1], DigitsBefore(k)]
    ELSE DrawnX(k - 1)

RECURSIVE DrawnY(_)
DrawnY(k) ==
    IF k = 0 THEN Zero
    ELSE IF IsOperation(commands[k]) /\ commands[k].y # None
    THEN Quotient[commands[k].y[1], DigitsBefore(k)]
    ELSE DrawnY(k - 1)

\* the k-th node lies after a RegionStart and before the next RegionEnd
InRegion(k) ==
    \E m \in 1..(k - 1) :
        /\ commands[m].type = "RegionStart"
        /\ \A n \in (m + 1)..(k - 1) : commands[n].type # "RegionEnd"

\* C4: an Operation is drawn at its own converted coordinates where present and
\* at the coordinates drawn for the previous Operation (or 0) where absent, and
\* the current point is the drawn point after every Operation, whatever its
\* d-code.
CoordinateModality ==
    rpc # "threw" =>
        /\ renderer.state.x = DrawnX(idx)
        /\ renderer.state.y = DrawnY(idx)
        /\ (idx > 0 /\ IsOperation(commands[idx]) /\ commands[idx].dcode = D01
                /\ ~renderer.state.regionMode /\ renderer.state.aperture # None) =>
            /\ renderer.paths # <<>>
            /\ renderer.paths[Len(renderer.paths)].x1 = DrawnX(idx - 1)
            /\ renderer.paths[Len(renderer.paths)].y1 = DrawnY(idx - 1)
            /\ renderer.paths[Len(renderer.paths)].x2 = DrawnX(idx)
            /\ renderer.paths[Len(renderer.paths)].y2 = DrawnY(idx)

\* a format, a draw with x only, a move with y only, then a flash with neither
\* field absent: the move kept the x of the draw
CoordinateModalityWitness ==
    /\ rpc = "done"
    /\ Len(commands) = 3
    /\ commands[1].type = "FormatSpecification"
    /\ IsOperation(commands[2]) /\ commands[2].dcode = D01 /\ commands[2].y = None
    /\ IsOperation(commands[3]) /\ commands[3].dcode = D02 /\ commands[3].x = None
    /\ renderer.state.x = One
    /\ renderer.state.y = NumInt(-2)

\* C5: a Flash met in region mode adds nothing to the flashes: every flash
\* emitted so far comes from a Flash node outside a region.
FlashIgnoredInRegion ==
    Len(renderer.flashes) <=
        Cardinality({k \in 1..idx :
            IsOperation(commands[k]) /\ commands[k].dcode = D03 /\ ~InRegion(k)})

\* C7: the replay raises no error on any node sequence, is never stuck before
\* its last node (it can process the next node or assemble the SVG), and ends
\* with an SVG after every node was processed.
RendererIsTotal ==
    /\ rpc # "threw"
    /\ ~renderer.threw
    /\ rpc = "replay" => (idx < Len(commands) \/ idx = Len(commands))
    /\ rpc = "done" => (svg # None /\ idx = Len(commands))

\* a RegionEnd with no RegionStart, a selection of an undefined aperture, a
\* RegionStart never closed and an operation before any format were rendered
RendererIsTotalWitness ==
    /\ rpc = "done"
    /\ svg # None
    /\ Len(commands) = 4
    /\ commands[1].type = "RegionEnd"
    /\ commands[2].type = "SelectAperture"
    /\ commands[3].type = "RegionStart"
    /\ IsOperation(commands[4])
    /\ renderer.state.regionMode
    /\ renderer.state.aperture = None
    /\ renderer.state.formatSpec = None

\* ----------------------------------------------- malformed operation fields
\* an operation command (a leading X, Y, I or J field and a terminal D-code)
\* whose coordinate text is not the signed integers of the grammar
MalformedOperation(value) ==
    /\ Len(value) > 0
    /\ value[1] \in {"X", "Y", "I", "J"}
    /\ \E i \in 2..Len(value) : CodeEnd(value, i, "D") = Len(value) + 1
    /\ ~operationMatch(value)

\* C11: an operation command with a non-numeric coordinate literal still gives
\* an Operation node, the malformed field absent and the d-code kept.
MalformedFieldAbsent ==
    \A k \in 1..Parsed :
        (tokens[k].type = "COMMAND" /\ MalformedOperation(tokens[k].value)) =>
            /\ k <= Len(nodes)
            /\ IsOperation(nodes[k])
            /\ nodes[k].dcode = parseOperation(tokens[k].value).dcode
            /\ \A f \in {"x", "y", "i", "j"} :
                    nodes[k][f] = parseOperation(tokens[k].value)[f]

\* ------------------------------------------------------ calls on a document
CountEndOfFile(cmds) == Cardinality({k \in 1..Len(cmds) : cmds[k].type = "EndOfFile"})

IsPrefix(a, b) == Len(a) <= Len(b) /\ SubSeq(b, 1, Len(a)) = a

\* C12: getString() returns the nodes' texts in sequence order, one newline
\* between two of them and one after the last, and leaves the nodes as they
\* were.
GetStringJoinsNodes ==
    last.op = "getString" =>
        /\ commands = prev
        /\ last.out =
            (IF commands = <<>> THEN <<"\n">>
             ELSE Concat([k \in 1..Len(commands) |->
                            NodeGetString(commands[k]) \o <<"\n">>]))

\* a comment, an end of file and an unrecognised command were serialized
GetStringJoinsNodesWitness ==
    /\ last.op = "getString"
    /\ commands = <<Comment(<<"h", "i">>), EndOfFile, UnknownCommand(<<"D", "5", "*">>)>>
    /\ last.out = <<"G", "0", "4", " ", "h", "i", "*", "\n",
                    "M", "0", "2", "*", "\n", "D", "5", "*", "\n">>

\* C13: addCommand appends the node it is given, or every node parsed from the
\* string it is given, in order; addApertureDefinition and addOperation append
\* their node; the nodes held before remain as a prefix.
AppendOnly ==
    /\ last.op \in {"addCommand", "addApertureDefinition", "addOperation"} =>
        /\ Len(last.arg) = 1
        /\ commands = prev \o last.arg
    /\ last.op = "addCommand(string)" =>
        /\ ~last.threw
        /\ ~parseGerber(last.arg).threw
        /\ commands = prev \o parseGerber(last.arg).nodes
    /\ last.op \in {"addCommand", "addCommand(string)", "addApertureDefinition",
                    "addOperation"} => IsPrefix(prev, commands)

\* a string of two commands was added to a document of one node
AppendOnlyWitness ==
    /\ last.op = "addCommand(string)"
    /\ last.arg = <<"G", "3", "6", "*", "\n", "G", "3", "7", "*">>
    /\ prev = <<Comment(<<"h", "i">>)>>
    /\ commands = <<Comment(<<"h", "i">>), RegionStart, RegionEnd>>

\* C14: ensureEndOfFile appends one EndOfFile exactly when the document holds
\* none and changes nothing otherwise; called again it changes nothing, so a
\* run of calls adds at most one EndOfFile.
EnsureEndOfFileOnce ==
    last.op = "ensureEndOfFile" =>
        /\ CountEndOfFile(prev) = 0 => commands = Append(prev, EndOfFile)
        /\ CountEndOfFile(prev) > 0 => commands = prev
        /\ last.run >= 2 => commands = prev
        /\ IsPrefix(last.base, commands)
        /\ CountEndOfFile(commands) <= CountEndOfFile(last.base) + 1

\* two calls in a row on a document of two nodes without an EndOfFile
EnsureEndOfFileOnceWitness ==
    /\ last.op = "ensureEndOfFile"
    /\ last.run = 2
    /\ Len(last.base) = 2
    /\ CountEndOfFile(last.base) = 0
    /\ commands = Append(last.base, EndOfFile)

\* C15: after ensureEndOfFile the last node is an EndOfFile and getString()
\* ends with M02* and the trailing newline.
EndsWithEndOfFile ==
    last.op = "ensureEndOfFile" =>
        /\ commands # <<>>
        /\ commands[Len(commands)].type = "EndOfFile"
        /\ EndsWith(getString(commands), <<"M", "0", "2", "*", "\n">>)

\* C16: GerberNode.parse fails when the source gives no node or several nodes
\* and returns the node when it gives one; the parse itself never fails.
NodeParseSingle ==
    /\ pc # "threw"
    /\ ~reparsed.threw
    /\ pc = "single" =>
        /\ last.op = "GerberNode.parse"
        /\ Len(tokenize(source)) = 2 =>
            /\ ~last.threw
            /\ last.node = Some(parseToken(tokenize(source)[1]))
        /\ Len(tokenize(source)) # 2 =>
            /\ last.threw
            /\ last.node = None

\* a source of two commands was refused
NodeParseSingleWitness ==
    /\ pc = "single"
    /\ Len(commands) = 2
    /\ last.threw
    /\ last.node = None

\* the text D<code>* of the codes handed to the constructor
SelectApertureText(code) ==
    CASE code = Ten -> <<"D", "1", "0", "*">>
      [] code = NumInt(11) -> <<"D", "1", "1", "*">>
      [] code = NumInt(120) -> <<"D", "1", "2", "0", "*">>
      [] OTHER -> <<>>

\* C17: the SelectAperture constructor fails for a code below 10 and creates no
\* node; for a code of 10 or more it gives a node that serializes as D<code>*.
SelectApertureGuard ==
    last.op = "SelectAperture" =>
        /\ NumLt(last.arg[1], Ten) => (last.threw /\ last.node = None)
        /\ NumGe(last.arg[1], Ten) =>
            /\ ~last.threw
            /\ last.node = Some([type |-> "SelectAperture", code |-> last.arg[1]])
            /\ last.out = SelectApertureText(last.arg[1])

\* the constructor was called with code 9 and failed
SelectApertureGuardWitness ==
    /\ last.op = "SelectAperture"
    /\ last.arg = <<NumInt(9)>>
    /\ last.threw
    /\ last.node = None

\* --------------------------------------------------------------- tokenizer
\* index of the first character after the first n that is not white space, or 0
FirstInk(s, n) ==
    IF \E i \in (n + 1)..Len(s) : s[i] \notin {" ", "\t", "\r", "\n"}
    THEN CHOOSE i \in (n + 1)..Len(s) :
            /\ s[i] \notin {" ", "\t", "\r", "\n"}
            /\ \A m \in (n + 1)..(i - 1) : s[m] \in {" ", "\t", "\r", "\n"}
    ELSE 0

\* index of the first c at or after index i, or 0
NextMark(s, i, c) ==
    IF \E j \in i..Len(s) : s[j] = c
    THEN CHOOSE j \in i..Len(s) : s[j] = c /\ \A m \in i..(j - 1) : s[m] # c
    ELSE 0

\* the tokens of a text as the grammar of the tokenizer describes them: kind,
\* value and whether the closing mark was met
RECURSIVE ClaimedTokens(_, _, _)
ClaimedTokens(s, n, acc) ==
    LET i == FirstInk(s, n)
        j == IF s[i] = "%" THEN NextMark(s, i + 1, "%") ELSE NextMark(s, i, "*")
    IN  IF i = 0 THEN acc
        ELSE IF s[i] = "%"
        THEN IF j = 0
             THEN Append(acc, [type |-> "EXTENDED_COMMAND", closed |-> FALSE,
                               value |-> SubSeq(s, i + 1, Len(s))])
             ELSE ClaimedTokens(s, j, Append(acc,
                    [type |-> "EXTENDED_COMMAND", closed |-> TRUE,
                     value |-> SubSeq(s, i + 1, j - 1)]))
        ELSE IF j = 0
             THEN Append(acc, [type |-> "COMMAND", closed |-> FALSE,
                               value |-> SubSeq(s, i, Len(s))])
             ELSE ClaimedTokens(s, j, Append(acc,
                    [type |-> "COMMAND", closed |-> TRUE,
                     value |-> SubSeq(s, i, j - 1)]))

\* C18: after the white space, a token starting with "%" is an extended block
\* whose value is the text between that "%" and the next one, an inner star
\* kept; any other token is a command whose value is the text before the next
\* "*"; white space inside a token is kept.
TokenClassification ==
    (pc = "parse" /\ ppos = 0) =>
        LET claimed == ClaimedTokens(source, 0, <<>>)
        IN  /\ Len(tokens) = Len(claimed) + 1
            /\ \A k \in 1..Len(claimed) :
                /\ tokens[k].type = claimed[k].type
                /\ claimed[k].closed => tokens[k].value = claimed[k].value

\* a block with an inner star and, after a newline, a command with a space
\* inside were tokenized
TokenClassificationWitness ==
    /\ pc = "parse"
    /\ ppos = 0
    /\ source = <<"%", "Z", "Z", "*", "%", "G", "0", "4", " ", "h", "i", "*">>
    /\ Len(tokens) = 3
    /\ tokens[1].type = "EXTENDED_COMMAND"
    /\ tokens[1].value = <<"Z", "Z", "*">>
    /\ tokens[2].type = "COMMAND"
    /\ tokens[2].value = <<"G", "0", "4", " ", "h", "i">>

\* C19: tokenize returns for every input, each iteration consuming at least
\* one character; the result holds one EOF sentinel, its last element, and an
\* empty or white-space input gives the sentinel alone.
TokenizeTerminates ==
    /\ <>(pc = "parse")
    /\ [][TokenizeToken => pos' > pos]_vars
    /\ [](pc = "parse" =>
            /\ tokens # <<>>
            /\ tokens[Len(tokens)].type = "EOF"
            /\ \A k \in 1..(Len(tokens) - 1) : tokens[k].type # "EOF"
            /\ (\A i \in 1..Len(source) : source[i] \in {" ", "\t", "\r", "\n"})
                    => Len(tokens) = 1)

\* a text of a space and a newline gave the sentinel alone
TokenizeTerminatesWitness ==
    /\ pc = "parse"
    /\ source = <<" ", "\n">>
    /\ Len(tokens) = 1
    /\ tokens[1].type = "EOF"

\* ---------------------------------------------------- coordinate conversion
\* an aperture is selected when the k-th node is replayed: the last
\* SelectAperture before it names a code defined before that selection
SelectedAt(k) ==
    \E m \in 1..(k - 1) :
        /\ commands[m].type = "SelectAperture"
        /\ \A n \in (m + 1)..(k - 1) : commands[n].type # "SelectAperture"
        /\ \E n \in 1..(m - 1) :
            /\ commands[n].type = "ApertureDefinition"
            /\ commands[n].code = commands[m].code

\* the nodes replayed so far that drew a line
LinesDrawn ==
    {k \in 1..idx : /\ IsOperation(commands[k])
                    /\ commands[k].dcode = D01
                    /\ ~InRegion(k)
                    /\ SelectedAt(k)}

\* C20: a coordinate v of an Operation is drawn as v / 10^d, d the x decimal
\* digits of the last FormatSpecification replayed before it (for both axes)
\* and 4 when there is none; a later FormatSpecification leaves the lines
\* already drawn as they are.
ConversionByFormatInForce ==
    rpc # "threw" =>
        /\ Len(renderer.paths) = Cardinality(LinesDrawn)
        /\ \A k \in LinesDrawn :
            LET line == renderer.paths[Cardinality({m \in LinesDrawn : m <= k})]
            IN  /\ commands[k].x # None =>
                        line.x2 \in Converted[commands[k].x[1], DigitsBefore(k)]
                /\ commands[k].y # None =>
                        line.y2 \in Converted[commands[k].y[1], DigitsBefore(k)]
        /\ (idx > 0 /\ IsOperation(commands[idx])) =>
            /\ commands[idx].x # None =>
                    renderer.state.x \in Converted[commands[idx].x[1], DigitsBefore(idx)]
            /\ commands[idx].y # None =>
                    renderer.state.y \in Converted[commands[idx].y[1], DigitsBefore(idx)]

\* a line was drawn to x = 10 before any format, then a format was replayed:
\* the line still ends at 10 / 10^4
ConversionByFormatInForceWitness ==
    /\ rpc = "done"
    /\ Len(commands) = 4
    /\ commands[1].type = "ApertureDefinition"
    /\ commands[2].type = "SelectAperture"
    /\ IsOperation(commands[3]) /\ commands[3].dcode = D01 /\ commands[3].x = Some(Ten)
    /\ commands[4].type = "FormatSpecification"
    /\ Len(renderer.paths) = 1
    /\ renderer.paths[1].x2 = Num(10, 4)
    /\ renderer.state.formatSpec # None

\* -------------------------------------------------------- aperture codes
\* C22: every ApertureDefinition node the parser produces, from a well-formed
\* or a malformed AD block, has a code of at least 10.
ApertureCodeAtLeastTen ==
    \A k \in 1..Len(nodes) :
        nodes[k].type = "ApertureDefinition" => NumGe(nodes[k].code, Ten)

\* --------------------------------------------------------------- attributes
\* the kind of node of an attribute block, by its third character
AttributeKind(p) ==
    IF p = "F" THEN "FileAttribute"
    ELSE IF p = "A" THEN "ApertureAttribute"
    ELSE "ObjectAttribute"

\* C24: an attribute block %TF.<rest>*%, %TA.<rest>*% or %TO.<rest>*% parses to
\* a node whose name is <rest> before its first comma and whose values are the
\* other comma-separated fields in order, and the node's getString() is the
\* block, character for character.
AttributeRoundTrip ==
    pc = "serialized" =>
        LET rest   == SubSeq(source, 5, Len(source) - 2)
            commas == {i \in 1..Len(rest) : rest[i] = ","}
            n      == commands[1]
        IN  /\ Len(commands) = 1
            /\ n.type = AttributeKind(source[3])
            /\ \A i \in 1..Len(n.name) : n.name[i] # ","
            /\ Len(n.values) = Cardinality(commas)
            /\ \A k \in 1..Len(n.values) :
                    \A i \in 1..Len(n.values[k]) : n.values[k][i] # ","
            /\ n.name \o Concat([k \in 1..Len(n.values) |-> <<",">> \o n.values[k]])
                    = rest
            /\ NodeGetString(n) = source
            /\ text = source \o <<"\n">>

\* an object attribute with an empty value and a value holding a star
AttributeRoundTripWitness ==
    /\ pc = "serialized"
    /\ source = <<"%", "T", "O", ".", ",", ",", "*", "*", "%">>
    /\ commands = <<ObjectAttribute(<<>>, Some(<<<<>>, <<"*">>>>))>>
    /\ text = <<"%", "T", "O", ".", ",", ",", "*", "*", "%", "\n">>

\* ------------------------------------------------------------------ flashes
\* the aperture definition selected when the k-th node is replayed: the last
\* definition of the code before the last SelectAperture
DefinitionSelectedAt(k) ==
    LET m == CHOOSE m \in 1..(k - 1) :
                /\ commands[m].type = "SelectAperture"
                /\ \A n \in (m + 1)..(k - 1) : commands[n].type # "SelectAperture"
        d == CHOOSE d \in 1..(m - 1) :
                /\ commands[d].type = "ApertureDefinition"
                /\ commands[d].code = commands[m].code
                /\ \A n \in (d + 1)..(m - 1) :
                        ~(commands[n].type = "ApertureDefinition"
                            /\ commands[n].code = commands[m].code)
    IN  commands[d]

\* the shape of a flash of aperture ap at (x, y)
FlashShape(ap, x, y) ==
    LET w == IF Len(ap.params) >= 1 THEN ap.params[1] ELSE Hundredth
        h == IF Len(ap.params) >= 2 THEN ap.params[2] ELSE w
    IN  IF ap.template = <<"C">>
        THEN [tag |-> "circle", cx |-> x, cy |-> y, r |-> NumHalf(w), fill |-> "#000"]
        ELSE IF ap.template = <<"R">>
        THEN [tag |-> "rect", x |-> NumSub(x, NumHalf(w)), y |-> NumSub(y, NumHalf(h)),
              width |-> w, height |-> h, rx |-> None, fill |-> "#000"]
        ELSE IF ap.template = <<"O">>
        THEN [tag |-> "rect", x |-> NumSub(x, NumHalf(w)), y |-> NumSub(y, NumHalf(h)),
              width |-> w, height |-> h, rx |-> Some(NumHalf(NumMin(w, h))),
              fill |-> "#000"]
        ELSE [tag |-> "circle", cx |-> x, cy |-> y, r |-> FiveThousandths, fill |-> "#000"]

\* the flashes replayed so far with an aperture selected
FlashesDrawn ==
    {k \in 1..idx : /\ IsOperation(commands[k])
                    /\ commands[k].dcode = D03
                    /\ SelectedAt(k)}

\* the line that the k-th node, a D01 of LinesDrawn, appended
LineOf(k) == renderer.paths[Cardinality({m \in LinesDrawn : m <= k})]

\* one line per D01 of LinesDrawn and no other, from the point before the
\* operation to the new point
OneLinePerTrace ==
    /\ Len(renderer.paths) = Cardinality(LinesDrawn)
    /\ \A k \in LinesDrawn :
            /\ LineOf(k).tag = "line"
            /\ LineOf(k).x1 = DrawnX(k - 1)
            /\ LineOf(k).y1 = DrawnY(k - 1)
            /\ LineOf(k).x2 = DrawnX(k)
            /\ LineOf(k).y2 = DrawnY(k)

\* C25, as amended: a D01 replayed outside region mode with an aperture
\* selected appends one line from the point before the operation to the new
\* point, with stroke-width the first parameter of the aperture selected, or
\* 0.01 when that aperture has no parameter; a D01 without an aperture or in
\* region mode and a D02 append none.
TraceDrawing ==
    rpc # "threw" =>
        /\ OneLinePerTrace
        /\ \A k \in LinesDrawn :
            LineOf(k).strokeWidth =
                (IF Len(DefinitionSelectedAt(k).params) = 0 THEN Hundredth
                 ELSE DefinitionSelectedAt(k).params[1])

\* C25, as claimed: the stroke-width of every line is the first parameter of
\* the aperture selected, which therefore has one.
TraceWidthIsFirstParameter ==
    rpc # "threw" =>
        /\ OneLinePerTrace
        /\ \A k \in LinesDrawn :
            /\ Len(DefinitionSelectedAt(k).params) >= 1
            /\ LineOf(k).strokeWidth = DefinitionSelectedAt(k).params[1]

\* a move to y = -20, then a line to x = 10 with a circle that was defined
\* without a parameter: the line is 0.01 wide
TraceDrawingWitness ==
    /\ rpc = "done"
    /\ Len(commands) = 4
    /\ commands[1] = ApertureDefinition(Ten, <<"C">>, None)
    /\ commands[2].type = "SelectAperture"
    /\ commands[3].type = "Move"
    /\ commands[4].type = "Interpolate"
    /\ renderer.paths =
        <<[tag |-> "line", x1 |-> Zero, y1 |-> Num(-20, 4),
           x2 |-> Num(10, 4), y2 |-> Num(-20, 4), stroke |-> "#000",
           strokeWidth |-> Hundredth]>>

\* ------------------------------------------------------------------ regions
\* the last RegionStart or RegionEnd before the k-th node, 0 when there is none
RegionMarkBefore(k) ==
    IF \E m \in 1..(k - 1) : commands[m].type \in {"RegionStart", "RegionEnd"}
    THEN CHOOSE m \in 1..(k - 1) :
            /\ commands[m].type \in {"RegionStart", "RegionEnd"}
            /\ \A n \in (m + 1)..(k - 1) :
                    commands[n].type \notin {"RegionStart", "RegionEnd"}
    ELSE 0

\* the D01 nodes between the region mark before the k-th node and that node
RegionLinesBefore(k) ==
    {m \in (RegionMarkBefore(k) + 1)..(k - 1) : commands[m].type = "Interpolate"}

\* the RegionEnd at k closes a path: a RegionStart is the mark before it and a
\* D01 lies between
ClosesPath(k) ==
    /\ commands[k].type = "RegionEnd"
    /\ RegionMarkBefore(k) > 0
    /\ commands[RegionMarkBefore(k)].type = "RegionStart"
    /\ RegionLinesBefore(k) # {}

RECURSIVE SegmentsFrom(_, _)
\* one line-to per D01 and one move-to per D02 of the nodes lo..hi
SegmentsFrom(lo, hi) ==
    IF lo > hi THEN <<>>
    ELSE (IF commands[lo].type = "Interpolate"
          THEN <<[cmd |-> "L", x |-> DrawnX(lo), y |-> DrawnY(lo)]>>
          ELSE IF commands[lo].type = "Move"
          THEN <<[cmd |-> "M", x |-> DrawnX(lo), y |-> DrawnY(lo)]>>
          ELSE <<>>) \o SegmentsFrom(lo + 1, hi)

\* the path that the RegionEnd at k closes
ClosedPath(k) ==
    LET first == CHOOSE m \in RegionLinesBefore(k) :
                    \A n \in RegionLinesBefore(k) : m <= n
    IN  <<[cmd |-> "M", x |-> DrawnX(first - 1), y |-> DrawnY(first - 1)]>>
            \o SegmentsFrom(first, k - 1) \o <<[cmd |-> "Z"]>>

\* C26: RegionEnd appends one path, the current region path followed by Z, if
\* and only if the path is non-empty, and clears region mode and the path; the
\* path is a move-to at the point held at the first D01 after the RegionStart,
\* then one line-to per D01 and one move-to per D02 from that D01 on.
RegionPathEmission ==
    rpc # "threw" =>
        /\ Len(renderer.regions) = Cardinality({k \in 1..idx : ClosesPath(k)})
        /\ (idx > 0 /\ commands[idx].type = "RegionEnd") =>
            /\ ~renderer.state.regionMode
            /\ renderer.regionPath = <<>>
            /\ ClosesPath(idx) =>
                    renderer.regions[Len(renderer.regions)] = ClosedPath(idx)

\* RegionStart, a line to x = 10, a move to y = -20, RegionEnd
RegionPathEmissionWitness ==
    /\ rpc = "done"
    /\ Len(commands) = 4
    /\ commands[1].type = "RegionStart"
    /\ commands[2].type = "Interpolate"
    /\ commands[3].type = "Move"
    /\ commands[4].type = "RegionEnd"
    /\ renderer.regions =
        <<<<[cmd |-> "M", x |-> Zero, y |-> Zero],
            [cmd |-> "L", x |-> Num(10, 4), y |-> Zero],
            [cmd |-> "M", x |-> Num(10, 4), y |-> Num(-20, 4)],
            [cmd |-> "Z"]>>>>
    /\ renderer.regionPath = <<>>
    /\ ~renderer.state.regionMode

\* C28: at every point of a replay the selected aperture is none or the
\* aperture table's current entry under its code, also after that code is
\* defined again.
SelectedIsTableEntry ==
    \/ renderer.state.aperture = None
    \/ renderer.state.aperture
            = ApertureGet(renderer.apertures, renderer.state.aperture[1].code)

\* C29: a non-empty current region path implies region mode.
RegionPathOnlyInRegion ==
    renderer.regionPath # <<>> => renderer.state.regionMode

\* a line was drawn outside a region, then a region was opened and a line added
\* to its path: the path starts at the point of the first line
RegionPathOnlyInRegionWitness ==
    /\ rpc = "replay"
    /\ idx = 3
    /\ commands[1].type = "Interpolate"
    /\ commands[2].type = "RegionStart"
    /\ commands[3].type = "Interpolate"
    /\ renderer.state.regionMode
    /\ Len(renderer.regionPath) = 2
    /\ renderer.regionPath[1] = [cmd |-> "M", x |-> Num(10, 4), y |-> Zero]

\* C30: at output assembly the bounding box is non-empty and the width and the
\* height of the viewBox are finite and at least twice the padding.
BoundsNonEmptyAtAssembly ==
    rpc = "done" =>
        /\ ~NumLess(renderer.bounds.maxX, renderer.bounds.minX)
        /\ ~NumLess(renderer.bounds.maxY, renderer.bounds.minY)
        /\ IsFinite(svg[1].viewBox[3])
        /\ IsFinite(svg[1].viewBox[4])
        /\ ~NumLess(svg[1].viewBox[3], NumMul(renderer.options.padding, Two))
        /\ ~NumLess(svg[1].viewBox[4], NumMul(renderer.options.padding, Two))

\* ------------------------------------------------------------- modal state
\* the node kinds that processCommand has no rule for
NoRuleTypes ==
    {"Comment", "FileAttribute", "ApertureAttribute", "ObjectAttribute",
     "DeleteAttribute", "ApertureMacro", "LoadMirroring", "LoadRotation",
     "LoadScaling", "StepRepeat", "EndOfFile", "UnknownCommand",
     "SetImagePolarity", "SetOffset"}

\* what the replay of the node cmd must leave as it was
Persists(cmd) ==
    /\ IsOperation(cmd) =>
        /\ renderer'.state.aperture = renderer.state.aperture
        /\ renderer'.state.interpolation = renderer.state.interpolation
        /\ renderer'.state.regionMode = renderer.state.regionMode
        /\ renderer'.state.polarity = renderer.state.polarity
        /\ renderer'.state.unit = renderer.state.unit
        /\ renderer'.state.formatSpec = renderer.state.formatSpec
        /\ renderer'.apertures = renderer.apertures
    /\ (cmd.type = "SetInterpolationMode" /\ cmd.mode \in {G74, G75}) =>
        renderer'.state.interpolation = renderer.state.interpolation
    /\ cmd.type \in NoRuleTypes => renderer' = renderer

\* C27: the replay of an Operation leaves the selected aperture, the
\* interpolation mode, the region-mode flag, the polarity, the unit, the format
\* and the aperture table as they were; SetInterpolationMode with G74 or G75
\* leaves the interpolation mode as it was; a node of a kind without a replay
\* rule leaves the graphics state and the accumulators as they were.
ModalStatePersists ==
    [][(rpc = "replay" /\ idx < Len(commands) /\ idx' = idx + 1)
            => Persists(commands[idx + 1])]_vars

\* after the nodes that set every mode, a flash, G74 and a comment were
\* replayed: the modes are the ones set
ModalStatePersistsWitness ==
    /\ rpc = "done"
    /\ Len(commands) = 8
    /\ commands[7].type = "Flash"
    /\ commands[8] = SetInterpolationMode(G74)
    /\ Len(renderer.flashes) = 1
    /\ renderer.state.aperture
            = Some([code |-> Ten, template |-> <<"C">>, params |-> <<Num(5, 1)>>])
    /\ renderer.state.interpolation = "cw"
    /\ renderer.state.polarity = "clear"
    /\ renderer.state.unit = <<"M", "M">>
    /\ renderer.state.formatSpec # None
    /\ ~renderer.state.regionMode

====
